---- MODULE Spec2Model ----
(***************************************************************************)
(* Trackify: the analytics engine (server/services/analytics/analytics.py) *)
(* over the measurement store kept by the data processor                   *)
(* (server/services/data_processor/data_processor.py).                     *)
(*                                                                         *)
(* Numbers.  A metric value is an integer number of units (kg, %, ...).    *)
(* A cell of the table is Num(v), NaN (a null of the JSON store, NaN in    *)
(* pandas) or Str (a text cell such as notes or bmi_category).  Quantities *)
(* the code computes in floating point are kept exact: a quotient is a     *)
(* pair numerator/denominator and comparisons are cross-multiplied; a      *)
(* value the code rounds with round(x, k) is the integer x * 10^k rounded  *)
(* half to even.  Timestamps are integer ticks, TicksPerDay ticks to a     *)
(* day, so that several measurements fall within one day.                  *)
(***************************************************************************)
EXTENDS Integers, Sequences, FiniteSets, TLC

VARIABLES
    store,      \* data/processed_data.json: the records, as the file lists them
    deps,       \* the engine's data_processor and photo_manager references
    call,       \* the operation last invoked, with its arguments
    result      \* the value that operation returned

vars == <<store, deps, call, result>>

(***************************************************************************)
(* Bounds of the model.                                                    *)
(***************************************************************************)
TicksPerDay == 2
MaxRecords == 4

(***************************************************************************)
(* Cells and arithmetic.                                                   *)
(***************************************************************************)
Num(v) == [k |-> "num", v |-> v]
NaN == [k |-> "nan", v |-> 0]
Str == [k |-> "str", v |-> 0]

notna(c) == c.k # "nan"
IsNum(c) == c.k = "num"

Abs(x) == IF x < 0 THEN -x ELSE x
Sgn(x) == IF x < 0 THEN -1 ELSE IF x > 0 THEN 1 ELSE 0

RECURSIVE SumSeq(_)
SumSeq(s) == IF s = <<>> THEN 0 ELSE Head(s) + SumSeq(Tail(s))

RECURSIVE Pow10(_)
Pow10(k) == IF k = 0 THEN 1 ELSE 10 * Pow10(k - 1)

\* round(n / d) for d > 0, half to even, as Python's round does on the exact value
RoundDiv(n, d) ==
    LET q == n \div d
        r == n % d
    IN  IF 2 * r > d THEN q + 1
        ELSE IF 2 * r < d THEN q
        ELSE IF q % 2 = 0 THEN q ELSE q + 1

RECURSIVE GCD(_, _)
GCD(a, b) == IF b = 0 THEN a ELSE GCD(b, a % b)

\* round(n / d, digits), in units of 10^-digits; n / d is put in lowest terms first
Round(n, d, digits) ==
    LET g == GCD(Abs(n), Abs(d))
        p == (IF d > 0 THEN n ELSE -n) \div g
        q == Abs(d) \div g
    IN  RoundDiv(p * Pow10(digits), q)

(***************************************************************************)
(* The table: pd.DataFrame(data) sorted by date.  A record is a function   *)
(* from column names to cells, its date an integer tick.                   *)
(***************************************************************************)
RECURSIVE InsertByDate(_, _)
InsertByDate(r, s) ==
    IF s = <<>> THEN <<r>>
    ELSE IF r.date < Head(s).date THEN <<r>> \o s
    ELSE <<Head(s)>> \o InsertByDate(r, Tail(s))

\* df.sort_values('date'): ascending, records of equal date in their given order
RECURSIVE sort_values(_)
sort_values(data) ==
    IF data = <<>> THEN <<>>
    ELSE InsertByDate(data[Len(data)], sort_values(SubSeq(data, 1, Len(data) - 1)))

Columns(df) == IF df = <<>> THEN {} ELSE DOMAIN df[1]
Column(df, metric) == [i \in 1..Len(df) |-> df[i][metric]]
\* the column with its nulls kept
keepna(col) == col

dropna(col) == SelectSeq(col, notna)
CellValues(col) == [i \in 1..Len(col) |-> col[i].v]
HasStr(col) == \E i \in 1..Len(col) : col[i].k = "str"

RECURSIVE MaxDate(_)
MaxDate(df) ==
    IF Len(df) = 1 THEN df[1].date
    ELSE LET m == MaxDate(Tail(df)) IN IF df[1].date > m THEN df[1].date ELSE m

(***************************************************************************)
(* Least squares of ys against the positions 0, 1, ..., n-1                *)
(* (LinearRegression().fit(np.arange(n), ys)): slope = SlopeNum / SlopeDen.*)
(***************************************************************************)
SumX(n) == (n * (n - 1)) \div 2
SumXX(n) == ((n - 1) * n * (2 * n - 1)) \div 6
SumXY(ys) == SumSeq([i \in 1..Len(ys) |-> (i - 1) * ys[i]])
SumYY(ys) == SumSeq([i \in 1..Len(ys) |-> ys[i] * ys[i]])
SlopeNum(ys) == Len(ys) * SumXY(ys) - SumX(Len(ys)) * SumSeq(ys)
SlopeDen(n) == n * SumXX(n) - SumX(n) * SumX(n)
\* values.std() squared is VarNum(ys) / (n * (n - 1)), the sample variance
VarNum(ys) == Len(ys) * SumYY(ys) - SumSeq(ys) * SumSeq(ys)

(***************************************************************************)
(* A raised exception, as the value of the helper that raised it.          *)
(***************************************************************************)
Raised == [exception |-> TRUE]
IsRaised(r) == "exception" \in DOMAIN r

(***************************************************************************)
(* AnalyticsEngine._calculate_trend(df, metric, days)                      *)
(***************************************************************************)
\* the window without the records that lie exactly on the cutoff
RecentRowsAfterCutoff(df, days) ==
    LET cutoff_date == MaxDate(df) - days * TicksPerDay
    IN  SelectSeq(df, LAMBDA r : r.date > cutoff_date)

\* recent_df = df[df['date'] >= df['date'].max() - timedelta(days=days)]
RecentRows(df, days) ==
    LET cutoff_date == MaxDate(df) - days * TicksPerDay
    IN  SelectSeq(df, LAMBDA r : r.date >= cutoff_date)

\* the cells of the window with its nulls kept
WindowCells(df, metric, days) == Column(RecentRows(df, days), metric)

\* values = recent_df[metric].dropna()
WindowValues(df, metric, days) == dropna(Column(RecentRows(df, days), metric))

\* the stability test with a fifth of the standard deviation as the threshold
BelowThresholdFifth(ys) ==
    LET n == Len(ys)
        gs == GCD(Abs(SlopeNum(ys)), SlopeDen(n))
        p == SlopeNum(ys) \div gs
        q == SlopeDen(n) \div gs
        gv == GCD(VarNum(ys), n * (n - 1))
        a == VarNum(ys) \div gv
        b == (n * (n - 1)) \div gv
    IN  25 * b * p * p < a * q * q

\* abs(slope) < values.std() * 0.1, both sides squared and cross-multiplied,
\* the slope p / q and the variance a / b in lowest terms
BelowThreshold(ys) ==
    LET n == Len(ys)
        gs == GCD(Abs(SlopeNum(ys)), SlopeDen(n))
        p == SlopeNum(ys) \div gs
        q == SlopeDen(n) \div gs
        gv == GCD(VarNum(ys), n * (n - 1))
        a == VarNum(ys) \div gv
        b == (n * (n - 1)) \div gv
    IN  100 * b * p * p < a * q * q

TrendDirection(ys) ==
    IF BelowThreshold(ys) THEN "stable"
    ELSE IF SlopeNum(ys) > 0 THEN "increasing"
    ELSE "decreasing"

\* the change taken relative to the end value
PercentChangeOfEnd(start_value, end_value) ==
    IF end_value # 0
    THEN Round((end_value - start_value) * 100, end_value, 2)
    ELSE 0

\* ((end - start) / start * 100) if start != 0 else 0, then round(., 2)
PercentChange(start_value, end_value) ==
    IF start_value # 0
    THEN Round((end_value - start_value) * 100, start_value, 2)
    ELSE 0

calculate_trend(df, metric, days) ==
    IF Len(RecentRows(df, days)) < 2 THEN [trend |-> "insufficient_data"]
    ELSE IF metric \notin Columns(df) THEN Raised
    ELSE LET values == WindowValues(df, metric, days)
         IN  IF Len(values) < 2 THEN [trend |-> "insufficient_data"]
             ELSE IF HasStr(values) THEN Raised
             ELSE LET ys == CellValues(values)
                      start_value == ys[1]
                      end_value == ys[Len(ys)]
                  IN  [trend |-> TrendDirection(ys),
                       slope |-> Round(SlopeNum(ys), SlopeDen(Len(ys)), 4),
                       change |-> (end_value - start_value) * 100,
                       percent_change |-> PercentChange(start_value, end_value),
                       data_points |-> Len(values),
                       period_days |-> days]

(***************************************************************************)
(* Floating-point results that may be infinite or NaN: Frac(n, d) with     *)
(* d > 0, Inf(s) with s the sign, or NaN.                                  *)
(***************************************************************************)
Frac(n, d) ==
    LET g == GCD(Abs(n), d)
    IN  [k |-> "num", n |-> n \div g, d |-> d \div g]
Inf(s) == [k |-> "inf", s |-> s]

\* a / b in floating point with numpy's conventions for b = 0
FDivInt(a, b) ==
    IF b # 0 THEN Frac(a * Sgn(b), Abs(b))
    ELSE IF a = 0 THEN NaN
    ELSE Inf(Sgn(a))

FAdd(x, y) ==
    IF x.k = "nan" \/ y.k = "nan" THEN NaN
    ELSE IF x.k = "inf" /\ y.k = "inf" THEN (IF x.s = y.s THEN x ELSE NaN)
    ELSE IF x.k = "inf" THEN x
    ELSE IF y.k = "inf" THEN y
    ELSE Frac(x.n * y.d + y.n * x.d, x.d * y.d)

FNeg(x) ==
    IF x.k = "nan" THEN NaN
    ELSE IF x.k = "inf" THEN Inf(-x.s)
    ELSE Frac(-x.n, x.d)

FSub(x, y) == FAdd(x, FNeg(y))

\* x < y for values that are not NaN
FLess(x, y) ==
    IF x.k = "inf" THEN x.s < 0 /\ ~(y.k = "inf" /\ y.s < 0)
    ELSE IF y.k = "inf" THEN y.s > 0
    ELSE x.n * y.d < y.n * x.d

RECURSIVE FSum(_)
FSum(s) == IF s = <<>> THEN Frac(0, 1) ELSE FAdd(Head(s), FSum(Tail(s)))

\* Series.mean(): NaN of an empty series
FMean(s) ==
    LET t == FSum(s)
    IN  IF s = <<>> THEN NaN
        ELSE IF t.k = "num" THEN Frac(t.n, t.d * Len(s))
        ELSE t

RECURSIVE FMax(_)
FMax(s) ==
    IF s = <<>> THEN NaN
    ELSE IF Len(s) = 1 THEN s[1]
    ELSE LET m == FMax(Tail(s)) IN IF FLess(m, s[1]) THEN s[1] ELSE m

RECURSIVE FMin(_)
FMin(s) ==
    IF s = <<>> THEN NaN
    ELSE IF Len(s) = 1 THEN s[1]
    ELSE LET m == FMin(Tail(s)) IN IF FLess(s[1], m) THEN s[1] ELSE m

\* round(x, digits) of such a value: a cell in units of 10^-digits, inf and nan kept
FRound(x, digits) ==
    IF x.k = "num" THEN Num(Round(x.n, x.d, digits)) ELSE x

(***************************************************************************)
(* AnalyticsEngine._calculate_change_velocity(df, metric)                  *)
(***************************************************************************)
\* the rows of df whose metric is not null: values.index
NonNullRows(df, metric) == SelectSeq(df, LAMBDA r : notna(r[metric]))

\* dates.diff().dt.days: whole days of the elapsed time (timedelta.days floors)
ElapsedDays(later, earlier) == (later - earlier) \div TicksPerDay

\* changes / time_diffs, one entry per consecutive pair of non-null rows
RawRates(df, metric) ==
    LET rows == NonNullRows(df, metric)
    IN  [i \in 1..(Len(rows) - 1) |->
            FDivInt(rows[i + 1][metric].v - rows[i][metric].v,
                    ElapsedDays(rows[i + 1].date, rows[i].date))]

\* daily_changes.dropna()
Rates(df, metric) == SelectSeq(RawRates(df, metric), notna)

\* daily_changes.diff().mean(): the NaN differences are skipped
Acceleration(rates) ==
    FMean(SelectSeq([i \in 1..(Len(rates) - 1) |-> FSub(rates[i + 1], rates[i])], notna))

calculate_change_velocity(df, metric) ==
    IF Len(NonNullRows(df, metric)) < 3 THEN [error |-> "Insufficient data"]
    ELSE IF HasStr(Column(df, metric)) THEN Raised
    ELSE LET daily_changes == Rates(df, metric)
         IN  [avg_daily_change |-> FRound(FMean(daily_changes), 4),
              max_daily_change |-> FRound(FMax(daily_changes), 4),
              min_daily_change |-> FRound(FMin(daily_changes), 4),
              acceleration |-> FRound(Acceleration(daily_changes), 6)]

(***************************************************************************)
(* round(sqrt(n / d), digits) for n >= 0, d > 0, in units of 10^-digits:   *)
(* the k with (2k - 1)^2 <= 4 * 10^(2 digits) * n / d < (2k + 1)^2.        *)
(***************************************************************************)
RECURSIVE ScaleFloor(_, _, _)
\* <<floor(n * 10^steps / d), (n * 10^steps) % d>>, one decimal digit at a time
ScaleFloor(n, d, steps) ==
    IF steps = 0 THEN <<n \div d, n % d>>
    ELSE LET p == ScaleFloor(n, d, steps - 1)
         IN  <<10 * p[1] + (10 * p[2]) \div d, (10 * p[2]) % d>>

SqrtHolds(k, Q) == k = 0 \/ (2 * k - 1) * (2 * k - 1) <= Q

RECURSIVE SqrtUp(_, _)
SqrtUp(h, Q) == IF SqrtHolds(h, Q) THEN SqrtUp(2 * h, Q) ELSE h

RECURSIVE SqrtBisect(_, _, _)
SqrtBisect(lo, hi, Q) ==
    IF hi - lo <= 1 THEN lo
    ELSE LET mid == (lo + hi) \div 2
         IN  IF SqrtHolds(mid, Q) THEN SqrtBisect(mid, hi, Q) ELSE SqrtBisect(lo, mid, Q)

RoundSqrt(n, d, digits) ==
    LET Q == ScaleFloor(4 * n, d, 2 * digits)[1]
    IN  SqrtBisect(0, SqrtUp(1, Q), Q)

(***************************************************************************)
(* AnalyticsEngine._analyze_metric_trend(df, metric)                       *)
(***************************************************************************)
RECURSIVE SeqMax(_)
SeqMax(s) == IF Len(s) = 1 THEN s[1] ELSE LET m == SeqMax(Tail(s)) IN IF s[1] > m THEN s[1] ELSE m

RECURSIVE SeqMin(_)
SeqMin(s) == IF Len(s) = 1 THEN s[1] ELSE LET m == SeqMin(Tail(s)) IN IF s[1] < m THEN s[1] ELSE m

\* values.diff().dropna()
Diffs(ys) == [i \in 1..(Len(ys) - 1) |-> ys[i + 1] - ys[i]]

\* Series.std() (ddof = 1) rounded to 2 digits: NaN of fewer than 2 values
StdRounded(ys) ==
    IF Len(ys) < 2 THEN NaN
    ELSE Num(RoundSqrt(VarNum(ys), Len(ys) * (Len(ys) - 1), 2))

\* model.score(x, values): r^2 of the fitted line, 1.0 when the values are constant
RSquared(ys) ==
    IF VarNum(ys) = 0 THEN 1000
    ELSE Round(SlopeNum(ys) * SlopeNum(ys), SlopeDen(Len(ys)) * VarNum(ys), 3)

analyze_metric_trend(df, metric) ==
    LET values == dropna(Column(df, metric))
    IN  IF Len(values) < 2 THEN [error |-> "Insufficient data"]
        ELSE IF HasStr(values) THEN Raised
        ELSE LET ys == CellValues(values)
                 n == Len(ys)
                 daily_changes == Diffs(ys)
             IN  [current |-> ys[n] * 100,
                  start |-> ys[1] * 100,
                  min |-> SeqMin(ys) * 100,
                  max |-> SeqMax(ys) * 100,
                  mean |-> Round(SumSeq(ys), n, 2),
                  std |-> StdRounded(ys),
                  total_change |-> (ys[n] - ys[1]) * 100,
                  total_change_percent |-> PercentChange(ys[1], ys[n]),
                  trend_slope |-> Round(SlopeNum(ys), SlopeDen(n), 4),
                  r_squared |-> RSquared(ys),
                  volatility |-> StdRounded(daily_changes),
                  largest_daily_change |->
                      SeqMax([i \in 1..Len(daily_changes) |-> Abs(daily_changes[i])]) * 100]

(***************************************************************************)
(* AnalyticsEngine._predict_metric(df, metric, days_ahead)                 *)
(***************************************************************************)
PredictionTail == 30
MinPredictionPoints == 5

\* values.tail(30)
TailSeq(s, k) == IF Len(s) <= k THEN s ELSE SubSeq(s, Len(s) - k + 1, Len(s))

\* the fitted line at position x: intercept + slope * x, as a fraction
LineAt(ys, x) ==
    LET m == Len(ys)
    IN  Frac(2 * SlopeDen(m) * SumSeq(ys) + SlopeNum(ys) * m * (2 * x - (m - 1)),
             2 * m * SlopeDen(m))

\* None is the value NoPrediction
NoPrediction == [none |-> TRUE]

\* the prediction fitted on every value, without values.tail(30)
predict_metric_untailed(df, metric, days_ahead) ==
    IF metric \notin Columns(df) THEN NoPrediction
    ELSE LET values == dropna(Column(df, metric))
         IN  IF Len(values) < MinPredictionPoints THEN NoPrediction
             ELSE IF HasStr(values) \/ days_ahead < 1 THEN NoPrediction
             ELSE LET recent_values == CellValues(values)
                      current_value == values[Len(values)].v
                      predicted_value == LineAt(recent_values, Len(recent_values) + days_ahead - 1)
                      change == FSub(predicted_value, Frac(current_value, 1))
                  IN  [current_value |-> current_value * 100,
                       predicted_value |-> Round(predicted_value.n, predicted_value.d, 2),
                       change |-> Round(change.n, change.d, 2),
                       confidence |-> RSquared(recent_values),
                       trend |-> IF change.n > 0 THEN "increasing"
                                 ELSE IF change.n < 0 THEN "decreasing"
                                 ELSE "stable"]

predict_metric(df, metric, days_ahead) ==
    IF metric \notin Columns(df) THEN NoPrediction
    ELSE LET values == dropna(Column(df, metric))
         IN  IF Len(values) < MinPredictionPoints THEN NoPrediction
             ELSE IF HasStr(values) \/ days_ahead < 1 THEN NoPrediction
             ELSE LET recent_values == CellValues(TailSeq(values, PredictionTail))
                      current_value == values[Len(values)].v
                      \* predictions[-1]: future_x ends at len(recent_values) + days_ahead - 1
                      predicted_value == LineAt(recent_values, Len(recent_values) + days_ahead - 1)
                      change == FSub(predicted_value, Frac(current_value, 1))
                  IN  [current_value |-> current_value * 100,
                       predicted_value |-> Round(predicted_value.n, predicted_value.d, 2),
                       change |-> Round(change.n, change.d, 2),
                       confidence |-> RSquared(recent_values),
                       trend |-> IF change.n > 0 THEN "increasing"
                                 ELSE IF change.n < 0 THEN "decreasing"
                                 ELSE "stable"]

(***************************************************************************)
(* DataFrame.corr(): Pearson's r over the rows where both cells are not    *)
(* null.  r is kept exact as its sign s and its square n / d; it is NaN    *)
(* when no row is complete or either column is constant over those rows.   *)
(***************************************************************************)
SumProd(xs, ys) == SumSeq([i \in 1..Len(xs) |-> xs[i] * ys[i]])
CovNum(xs, ys) == Len(xs) * SumProd(xs, ys) - SumSeq(xs) * SumSeq(ys)

PairRows(df, m1, m2) == SelectSeq(df, LAMBDA r : notna(r[m1]) /\ notna(r[m2]))

corr(df, m1, m2) ==
    LET rows == PairRows(df, m1, m2)
        xs == CellValues(Column(rows, m1))
        ys == CellValues(Column(rows, m2))
        c == CovNum(xs, ys)
        divisor == VarNum(xs) * VarNum(ys)
    IN  IF Len(rows) < 1 \/ divisor = 0 THEN NaN
        ELSE [k |-> "num", s |-> Sgn(c), n |-> c * c, d |-> divisor]

\* round(r, 3), in thousandths
RoundCorr(r) == IF r.k = "nan" THEN NaN ELSE Num(r.s * RoundSqrt(r.n, r.d, 3))

\* abs(r) > t / 10 for t in tenths; false of NaN
AbsCorrAbove(r, t) == r.k = "num" /\ 100 * r.n > t * t * r.d

\* [m for m in metrics if m in df.columns]
RECURSIVE Available(_, _)
Available(metrics, df) ==
    IF metrics = <<>> THEN <<>>
    ELSE (IF Head(metrics) \in Columns(df) THEN <<Head(metrics)>> ELSE <<>>)
            \o Available(Tail(metrics), df)

\* df[available_metrics].corr() raises on a column holding text
CorrRaises(df, available_metrics) ==
    \E i \in 1..Len(available_metrics) : HasStr(Column(df, available_metrics[i]))

\* the pairs (i, j), i < j, in the order the nested loops visit them
OrderedPairs(n) ==
    LET idx == {<<i, j>> \in (1..n) \X (1..n) : i < j}
        before(p, q) == p[1] < q[1] \/ (p[1] = q[1] /\ p[2] < q[2])
    IN  [t \in 1..Cardinality(idx) |->
            CHOOSE p \in idx : Cardinality({q \in idx : before(q, p)}) = t - 1]

\* the dict keyed with the later metric of the list first
calculate_correlations_reversed(df, metrics) ==
    LET available_metrics == Available(metrics, df)
        n == Len(available_metrics)
    IN  IF n < 2 THEN [error |-> "Need at least 2 metrics for correlation"]
        ELSE IF CorrRaises(df, available_metrics) THEN Raised
        ELSE [pairs |->
                 [key \in {<<available_metrics[p[1]], available_metrics[p[2]]>> :
                              p \in {q \in (1..n) \X (1..n) : q[1] > q[2]}} |->
                     RoundCorr(corr(df, key[1], key[2]))]]

(***************************************************************************)
(* AnalyticsEngine._calculate_correlations(df, metrics): the dict, as the  *)
(* field pairs, keyed by <<metric1, metric2>> for metric1_vs_metric2.      *)
(***************************************************************************)
calculate_correlations(df, metrics) ==
    LET available_metrics == Available(metrics, df)
        n == Len(available_metrics)
    IN  IF n < 2 THEN [error |-> "Need at least 2 metrics for correlation"]
        ELSE IF CorrRaises(df, available_metrics) THEN Raised
        ELSE [pairs |->
                 [key \in {<<available_metrics[p[1]], available_metrics[p[2]]>> :
                              p \in {q \in (1..n) \X (1..n) : q[1] < q[2]}} |->
                     RoundCorr(corr(df, key[1], key[2]))]]

(***************************************************************************)
(* DataProcessor.get_body_composition_data(start_date, end_date, limit)    *)
(* over the records of the file.  An optional date is <<>> (None) or       *)
(* <<day>>; the string 'YYYY-MM-DD' parses to midnight of that day.        *)
(***************************************************************************)
DefaultLimit == 100
Midnight(day) == day * TicksPerDay

InRange(record_date, start_date, end_date) ==
    /\ start_date = <<>> \/ ~(record_date < Midnight(start_date[1]))
    /\ end_date = <<>> \/ ~(record_date > Midnight(end_date[1]))

get_body_composition_data(data, start_date, end_date, limit) ==
    LET filtered_data == SelectSeq(data, LAMBDA r : InRange(r.date, start_date, end_date))
    IN  IF limit # 0 /\ Len(filtered_data) > limit
        THEN SubSeq(filtered_data, 1, limit)
        ELSE filtered_data

\* DataProcessor.get_latest_measurement(): data[0] if data else None (<<>>)
get_latest_measurement(data) ==
    LET d == get_body_composition_data(data, <<>>, <<>>, 1)
    IN  IF d = <<>> THEN <<>> ELSE <<d[1]>>

(***************************************************************************)
(* AnalyticsEngine.get_trend_analysis(start_date, end_date, metrics)       *)
(***************************************************************************)
Range(seq) == {seq[i] : i \in 1..Len(seq)}

\* the loop guard without its count of non-null values
AnalysedPresent(df, metrics) == {m \in Range(metrics) : m \in Columns(df)}

\* metric in df.columns and df[metric].notna().sum() > 1
Analysed(df, metrics) ==
    {m \in Range(metrics) : m \in Columns(df) /\ Len(dropna(Column(df, m))) > 1}

TrendPredictionDays == 30

get_trend_analysis(data_file, start_date, end_date, metrics) ==
    LET data == get_body_composition_data(data_file, <<start_date>>, <<end_date>>, DefaultLimit)
        df == sort_values(data)
        correlations == calculate_correlations(df, metrics)
        done == Analysed(df, metrics)
    IN  IF Len(data) < 2 THEN [error |-> "Insufficient data for trend analysis"]
        ELSE IF \/ IsRaised(correlations)
                \/ \E m \in done : IsRaised(analyze_metric_trend(df, m))
                \/ \E m \in done : IsRaised(calculate_change_velocity(df, m))
        THEN [error |-> "Error in trend analysis"]
        ELSE [period |-> [start |-> start_date,
                          end |-> end_date,
                          duration_days |-> end_date - start_date,
                          data_points |-> Len(data)],
              metrics_analysis |-> [m \in done |-> analyze_metric_trend(df, m)],
              correlations |-> correlations,
              change_velocity |-> [m \in done |-> calculate_change_velocity(df, m)],
              predictions |-> [m \in done |-> predict_metric(df, m, TrendPredictionDays)]]

(***************************************************************************)
(* AnalyticsEngine.get_metric_correlations()                               *)
(***************************************************************************)
numeric_metrics ==
    <<"weight_kg", "bmi", "body_fat_percent", "muscle_mass_kg",
      "skeletal_muscle_percent", "body_water_percent", "basal_metabolic_rate",
      "visceral_fat", "metabolic_age">>

\* an entry that calls every listed pair strong
StrongEntryLoose(df, metric1, metric2) ==
    LET correlation == corr(df, metric1, metric2)
    IN  [metric1 |-> metric1,
         metric2 |-> metric2,
         correlation |-> RoundCorr(correlation),
         strength |-> IF AbsCorrAbove(correlation, 7) THEN "strong" ELSE "moderate",
         direction |-> IF correlation.s > 0 THEN "positive" ELSE "negative"]

\* one entry of strong_correlations
StrongEntry(df, metric1, metric2) ==
    LET correlation == corr(df, metric1, metric2)
    IN  [metric1 |-> metric1,
         metric2 |-> metric2,
         correlation |-> RoundCorr(correlation),
         strength |-> IF AbsCorrAbove(correlation, 8) THEN "strong" ELSE "moderate",
         direction |-> IF correlation.s > 0 THEN "positive" ELSE "negative"]

\* the pairs i < j in loop order whose abs(correlation) > 0.7
StrongCorrelations(df, cols) ==
    LET pairs == SelectSeq(OrderedPairs(Len(cols)),
                           LAMBDA p : AbsCorrAbove(corr(df, cols[p[1]], cols[p[2]]), 7))
    IN  [t \in 1..Len(pairs) |-> StrongEntry(df, cols[pairs[t][1]], cols[pairs[t][2]])]

\* AnalyticsEngine._interpret_correlations: one sentence per entry, in order
interpret_correlations(correlations) ==
    [t \in 1..Len(correlations) |->
        [sentence |-> IF correlations[t].direction = "positive"
                      THEN "tend to increase/decrease together"
                      ELSE "as metric1 increases, metric2 tends to decrease",
         metric1 |-> correlations[t].metric1,
         metric2 |-> correlations[t].metric2,
         r |-> correlations[t].correlation]]

get_metric_correlations(data_file) ==
    LET data == get_body_composition_data(data_file, <<>>, <<>>, DefaultLimit)
        df == data
        available_metrics == Available(numeric_metrics, df)
        strong_correlations == StrongCorrelations(df, available_metrics)
    IN  IF data = <<>> THEN [error |-> "No data available"]
        ELSE IF CorrRaises(df, available_metrics)
        THEN [error |-> "Error calculating correlations"]
        ELSE [correlation_matrix |->
                  [a \in Range(available_metrics) |->
                      [b \in Range(available_metrics) |-> RoundCorr(corr(df, a, b))]],
              strong_correlations |-> strong_correlations,
              insights |-> interpret_correlations(strong_correlations)]

(***************************************************************************)
(* AnalyticsEngine._identify_achievements(df)                              *)
(***************************************************************************)
\* df[metric].iloc[-1] - df[metric].iloc[0]: NaN when either cell is null
EndChange(df, metric) ==
    LET first == df[1][metric]
        last == df[Len(df)][metric]
    IN  IF IsNum(first) /\ IsNum(last) THEN Num(last.v - first.v) ELSE NaN

\* the subtraction raises on a text cell
EndChangeRaises(df, metric) ==
    metric \in Columns(df) /\ (df[1][metric].k = "str" \/ df[Len(df)][metric].k = "str")

\* the weight milestone with its thresholds taken as inclusive
WeightAchievementInclusive(df) ==
    LET weight_change == EndChange(df, "weight_kg")
    IN  IF "weight_kg" \notin Columns(df) \/ ~IsNum(weight_change) THEN <<>>
        ELSE IF weight_change.v <= -5
        THEN <<[type |-> "weight_loss",
                value |-> Abs(weight_change.v),
                category |-> IF Abs(weight_change.v) >= 10 THEN "major" ELSE "significant"]>>
        ELSE IF weight_change.v >= 2
        THEN <<[type |-> "weight_gain",
                value |-> weight_change.v,
                category |-> "muscle_building"]>>
        ELSE <<>>

WeightAchievement(df) ==
    LET weight_change == EndChange(df, "weight_kg")
    IN  IF "weight_kg" \notin Columns(df) \/ ~IsNum(weight_change) THEN <<>>
        ELSE IF weight_change.v < -5
        THEN <<[type |-> "weight_loss",
                value |-> Abs(weight_change.v),
                category |-> IF Abs(weight_change.v) > 10 THEN "major" ELSE "significant"]>>
        ELSE IF weight_change.v > 2
        THEN <<[type |-> "weight_gain",
                value |-> weight_change.v,
                category |-> "muscle_building"]>>
        ELSE <<>>

\* the body fat milestone with its threshold included
FatAchievementInclusive(df) ==
    LET fat_change == EndChange(df, "body_fat_percent")
    IN  IF "body_fat_percent" \notin Columns(df) \/ ~IsNum(fat_change) THEN <<>>
        ELSE IF fat_change.v <= -2
        THEN <<[type |-> "fat_loss",
                value |-> Abs(fat_change.v),
                category |-> IF Abs(fat_change.v) > 5 THEN "major" ELSE "significant"]>>
        ELSE <<>>

FatAchievement(df) ==
    LET fat_change == EndChange(df, "body_fat_percent")
    IN  IF "body_fat_percent" \notin Columns(df) \/ ~IsNum(fat_change) THEN <<>>
        ELSE IF fat_change.v < -2
        THEN <<[type |-> "fat_loss",
                value |-> Abs(fat_change.v),
                category |-> IF Abs(fat_change.v) > 5 THEN "major" ELSE "significant"]>>
        ELSE <<>>

MuscleAchievement(df) ==
    LET muscle_change == EndChange(df, "muscle_mass_kg")
    IN  IF "muscle_mass_kg" \notin Columns(df) \/ ~IsNum(muscle_change) THEN <<>>
        ELSE IF muscle_change.v > 1
        THEN <<[type |-> "muscle_gain",
                value |-> muscle_change.v,
                category |-> "muscle_building"]>>
        ELSE <<>>

\* a text cell at either end of a milestone column makes the method raise
AchievementsRaise(df) ==
    /\ Len(df) >= 2
    /\ \E m \in {"weight_kg", "body_fat_percent", "muscle_mass_kg"} : EndChangeRaises(df, m)

identify_achievements(df) ==
    IF Len(df) < 2 THEN <<>>
    ELSE IF AchievementsRaise(df) THEN Raised
    ELSE WeightAchievement(df) \o FatAchievement(df) \o MuscleAchievement(df)

(***************************************************************************)
(* AnalyticsEngine._generate_health_insights(df).  BMI is kept in halves   *)
(* of a unit (18.5 is 37 halves), the other metrics in units.              *)
(***************************************************************************)
BmiInsight(latest) ==
    IF "bmi" \notin DOMAIN latest THEN <<>>
    ELSE LET bmi == latest.bmi
         IN  IF IsNum(bmi) /\ bmi.v < 37 THEN <<"underweight">>
             ELSE IF IsNum(bmi) /\ 37 <= bmi.v /\ bmi.v < 50 THEN <<"healthy">>
             ELSE IF IsNum(bmi) /\ 50 <= bmi.v /\ bmi.v < 60 THEN <<"overweight">>
             ELSE <<"obese">>

BodyFatInsight(latest) ==
    IF "body_fat_percent" \notin DOMAIN latest THEN <<>>
    ELSE LET body_fat == latest.body_fat_percent
         IN  IF ~IsNum(body_fat) THEN <<>>
             ELSE IF body_fat.v < 10 THEN <<"very_low_body_fat">>
             ELSE IF 10 <= body_fat.v /\ body_fat.v <= 15 THEN <<"athletic_body_fat">>
             ELSE IF 16 <= body_fat.v /\ body_fat.v <= 20 THEN <<"fitness_body_fat">>
             ELSE IF body_fat.v > 25 THEN <<"focus_on_fat_loss">>
             ELSE <<>>

HydrationInsight(latest) ==
    IF "body_water_percent" \notin DOMAIN latest THEN <<>>
    ELSE LET water_pct == latest.body_water_percent
         IN  IF ~IsNum(water_pct) THEN <<>>
             ELSE IF water_pct.v < 50 THEN <<"low_body_water">>
             ELSE IF water_pct.v > 65 THEN <<"high_body_water">>
             ELSE <<>>

\* a comparison of a text cell with a number makes the method raise
InsightsRaise(df) ==
    /\ Len(df) >= 2
    /\ \E m \in {"bmi", "body_fat_percent", "body_water_percent"} \cap DOMAIN df[Len(df)] :
          df[Len(df)][m].k = "str"

generate_health_insights(df) ==
    IF Len(df) < 2 THEN <<>>
    ELSE LET latest == df[Len(df)]
         IN  IF InsightsRaise(df) THEN Raised
             ELSE BmiInsight(latest) \o BodyFatInsight(latest) \o HydrationInsight(latest)

(***************************************************************************)
(* AnalyticsEngine._calculate_measurement_frequency(df)                    *)
(***************************************************************************)
Intervals(df) == [i \in 1..(Len(df) - 1) |-> ElapsedDays(df[i + 1].date, df[i].date)]

\* intervals.mode().iloc[0]: the smallest of the most frequent values
Mode(s) ==
    LET count(v) == Cardinality({i \in 1..Len(s) : s[i] = v})
        top == {v \in Range(s) : \A w \in Range(s) : count(w) <= count(v)}
    IN  CHOOSE v \in top : \A w \in top : v <= w

calculate_measurement_frequency(df) ==
    IF Len(df) < 2 THEN [frequency |-> "insufficient_data"]
    ELSE LET intervals == Intervals(df)
             total == SumSeq(intervals)
             k == Len(intervals)
         IN  [frequency |-> IF total <= k THEN "daily"
                            ELSE IF total <= 3 * k THEN "frequent"
                            ELSE IF total <= 7 * k THEN "weekly"
                            ELSE IF total <= 30 * k THEN "monthly"
                            ELSE "infrequent",
              avg_days_between |-> Round(total, k, 1),
              most_common_interval |-> Mode(intervals)]

(***************************************************************************)
(* AnalyticsEngine._calculate_period_changes(df)                           *)
(***************************************************************************)
key_metrics == <<"weight_kg", "body_fat_percent", "muscle_mass_kg", "bmi">>

\* (change / start * 100) if start != 0 else 0, rounded; NaN when change or start is
PeriodPercent(start, end) ==
    IF IsNum(start) /\ start.v = 0 THEN Num(0)
    ELSE IF IsNum(start) /\ IsNum(end) THEN Num(PercentChange(start.v, end.v))
    ELSE NaN

calculate_period_changes(df) ==
    IF Len(df) < 2 THEN <<>>
    ELSE IF \E m \in Range(key_metrics) : EndChangeRaises(df, m) THEN Raised
    ELSE [m \in Range(key_metrics) \cap Columns(df) |->
            LET change == EndChange(df, m)
            IN  [absolute |-> IF IsNum(change) THEN Num(change.v * 100) ELSE NaN,
                 percent |-> PeriodPercent(df[1][m], df[Len(df)][m])]]

(***************************************************************************)
(* AnalyticsEngine.get_metrics_summary()                                   *)
(***************************************************************************)
\* Series.min/max/mean/std skip nulls and give NaN when none is left
ColumnStat(col, stat) ==
    LET ys == CellValues(dropna(col))
    IN  IF ys = <<>> THEN NaN
        ELSE IF stat = "min" THEN Num(SeqMin(ys) * 100)
        ELSE IF stat = "max" THEN Num(SeqMax(ys) * 100)
        ELSE IF stat = "avg" THEN Num(Round(SumSeq(ys), Len(ys), 2))
        ELSE StdRounded(ys)

CurrentStats(df, metric) ==
    LET col == Column(df, metric)
        current_value == col[Len(col)]
    IN  [current |-> IF IsNum(current_value) THEN Num(current_value.v * 100) ELSE NaN,
         min |-> ColumnStat(col, "min"),
         max |-> ColumnStat(col, "max"),
         avg |-> ColumnStat(col, "avg"),
         std |-> ColumnStat(col, "std")]

\* the four trends with the windows of the week and the month exchanged
SummaryTrendsExchanged(df, metric) ==
    [week |-> calculate_trend(df, metric, 30),
     month |-> calculate_trend(df, metric, 7),
     quarter |-> calculate_trend(df, metric, 90),
     year |-> calculate_trend(df, metric, 365)]

SummaryTrends(df, metric) ==
    [week |-> calculate_trend(df, metric, 7),
     month |-> calculate_trend(df, metric, 30),
     quarter |-> calculate_trend(df, metric, 90),
     year |-> calculate_trend(df, metric, 365)]

get_metrics_summary(data_file) ==
    LET data == get_body_composition_data(data_file, <<>>, <<>>, DefaultLimit)
        df == sort_values(data)
        present == Range(numeric_metrics) \cap Columns(df)
    IN  IF data = <<>> THEN [error |-> "No data available"]
        ELSE IF \/ AchievementsRaise(df)
                \/ InsightsRaise(df)
                \/ \E m \in present : HasStr(Column(df, m))
        THEN [error |-> "Error generating metrics summary"]
        ELSE [overview |->
                  [total_measurements |-> Len(data),
                   date_range |->
                       [start |-> df[1].date \div TicksPerDay,
                        end |-> df[Len(df)].date \div TicksPerDay,
                        duration_days |-> ElapsedDays(df[Len(df)].date, df[1].date)],
                   latest_measurement |-> data[1].date,
                   measurement_frequency |-> calculate_measurement_frequency(df)],
              current_stats |-> [m \in present |-> CurrentStats(df, m)],
              trends |-> [m \in present |-> SummaryTrends(df, m)],
              achievements |-> identify_achievements(df),
              health_insights |-> generate_health_insights(df)]

(***************************************************************************)
(* AnalyticsEngine.get_progress_predictions(days_ahead)                    *)
(***************************************************************************)
metrics_to_predict == <<"weight_kg", "body_fat_percent", "muscle_mass_kg", "bmi">>
PredictionLimit == 90
MinBatchRecords == 10
BatchGuard == 5

\* metric in df.columns and df[metric].notna().sum() > 5, and a prediction was made
Predicted(df, days_ahead) ==
    {m \in Range(metrics_to_predict) :
        /\ m \in Columns(df)
        /\ Len(dropna(Column(df, m))) > BatchGuard
        /\ predict_metric(df, m, days_ahead) # NoPrediction}

\* the batch without its minimum of records
get_progress_predictions_unguarded(data_file, days_ahead) ==
    LET data == get_body_composition_data(data_file, <<>>, <<>>, PredictionLimit)
        df == sort_values(data)
    IN  [prediction_period |-> days_ahead,
         base_data_points |-> Len(data),
         predictions |-> [m \in Predicted(df, days_ahead) |->
                             predict_metric(df, m, days_ahead)]]

get_progress_predictions(data_file, days_ahead) ==
    LET data == get_body_composition_data(data_file, <<>>, <<>>, PredictionLimit)
        df == sort_values(data)
    IN  IF Len(data) < MinBatchRecords THEN [error |-> "Insufficient data for predictions"]
        ELSE [prediction_period |-> days_ahead,
              base_data_points |-> Len(data),
              predictions |-> [m \in Predicted(df, days_ahead) |->
                                  predict_metric(df, m, days_ahead)]]

(***************************************************************************)
(* AnalyticsEngine.check_goal_progress(target_weight, target_date)         *)
(* target_date is a day (the string 'YYYY-MM-DD').                         *)
(***************************************************************************)
GoalTrendLimit == 30
GoalTrendDays == 30

\* (target_dt - current_date).days
DaysRemaining(latest_date, target_date) == (Midnight(target_date) - latest_date) \div TicksPerDay

\* weeks_remaining = days_remaining / 7;
\* required_weekly_rate = weight_to_lose / weeks_remaining if weeks_remaining > 0 else 0
RequiredWeeklyRate(weight_to_lose, days_remaining) ==
    IF days_remaining > 0
    THEN (IF IsNum(weight_to_lose) THEN Frac(7 * weight_to_lose.v, days_remaining) ELSE NaN)
    ELSE Frac(0, 1)

\* the feasibility label with the upper band limits taken as exclusive
FeasibilityInclusive(rate) ==
    IF rate.k # "num" THEN "realistic"
    ELSE IF Abs(rate.n) >= rate.d THEN "aggressive"
    ELSE IF 2 * Abs(rate.n) >= rate.d THEN "challenging"
    ELSE IF 5 * Abs(rate.n) < rate.d THEN "conservative"
    ELSE "realistic"

\* the feasibility label; every comparison is false of a NaN rate
Feasibility(rate) ==
    IF rate.k # "num" THEN "realistic"
    ELSE IF Abs(rate.n) > rate.d THEN "aggressive"
    ELSE IF 2 * Abs(rate.n) > rate.d THEN "challenging"
    ELSE IF 5 * Abs(rate.n) < rate.d THEN "conservative"
    ELSE "realistic"

\* a rejection of past days only, which lets a target of today through
GoalRejectedStrict(days_remaining) == days_remaining < 0

\* if days_remaining <= 0: return {"error": "Target date must be in the future"}
GoalRejected(days_remaining) == days_remaining <= 0

\* AnalyticsEngine._get_goal_recommendation
get_goal_recommendation(feasibility) ==
    IF feasibility = "aggressive" THEN "extend timeline or consult a professional"
    ELSE IF feasibility = "challenging" THEN "achievable with consistent effort"
    ELSE IF feasibility = "conservative" THEN "very achievable"
    ELSE "appears realistic"

check_goal_progress(data_file, target_weight, target_date) ==
    LET latest_data == get_latest_measurement(data_file)
    IN  IF latest_data = <<>> THEN [error |-> "No measurement data available"]
        ELSE IF "weight_kg" \notin DOMAIN latest_data[1] \/ latest_data[1].weight_kg.k = "str"
        THEN [error |-> "Error checking goal progress"]
        ELSE LET current_weight == latest_data[1].weight_kg
                 days_remaining == DaysRemaining(latest_data[1].date, target_date)
                 weight_to_lose == IF IsNum(current_weight)
                                   THEN Num(current_weight.v - target_weight)
                                   ELSE NaN
                 required_weekly_rate == RequiredWeeklyRate(weight_to_lose, days_remaining)
                 df == sort_values(get_body_composition_data(data_file, <<>>, <<>>, GoalTrendLimit))
                 current_trend == calculate_trend(df, "weight_kg", GoalTrendDays)
                 feasibility == Feasibility(required_weekly_rate)
             IN  IF GoalRejected(days_remaining)
                 THEN [error |-> "Target date must be in the future"]
                 ELSE IF IsRaised(current_trend) THEN [error |-> "Error checking goal progress"]
                 ELSE [current_weight |-> current_weight,
                       target_weight |-> target_weight,
                       weight_to_change |-> IF IsNum(weight_to_lose)
                                            THEN Num(weight_to_lose.v * 100) ELSE NaN,
                       days_remaining |-> days_remaining,
                       weeks_remaining |-> Round(days_remaining, 7, 1),
                       required_weekly_rate |-> FRound(required_weekly_rate, 2),
                       current_trend |-> current_trend,
                       feasibility |-> feasibility,
                       recommendation |-> get_goal_recommendation(feasibility)]

(***************************************************************************)
(* AnalyticsEngine.generate_progress_report(start_date, end_date,          *)
(* include_photos), over the records and the photos the collaborators      *)
(* returned.  generated_at, the clock's reading, is left out.              *)
(***************************************************************************)
\* AnalyticsEngine._get_period_stats: row.get(metric, 0)
get_period_stats(row) ==
    [weight |-> IF "weight_kg" \in DOMAIN row THEN row.weight_kg ELSE Num(0),
     body_fat |-> IF "body_fat_percent" \in DOMAIN row THEN row.body_fat_percent ELSE Num(0),
     muscle_mass |-> IF "muscle_mass_kg" \in DOMAIN row THEN row.muscle_mass_kg ELSE Num(0),
     bmi |-> IF "bmi" \in DOMAIN row THEN row.bmi ELSE Num(0)]

period_metrics == <<"weight_kg", "body_fat_percent", "muscle_mass_kg">>

\* AnalyticsEngine._get_period_trends: _calculate_trend(df, metric, len(df))
get_period_trends(df) ==
    [m \in Range(period_metrics) \cap Columns(df) |-> calculate_trend(df, m, Len(df))]

PeriodTrendsRaise(df) ==
    \E m \in Range(period_metrics) \cap Columns(df) : IsRaised(calculate_trend(df, m, Len(df)))

RecommendationDays == 30

WeightRecommendation(df) ==
    IF "weight_kg" \notin Columns(df) THEN <<>>
    ELSE LET weight_trend == calculate_trend(df, "weight_kg", RecommendationDays)
         IN  IF weight_trend.trend = "increasing" /\ weight_trend.percent_change > 200
             THEN <<"review caloric intake and exercise routine">>
             ELSE IF weight_trend.trend = "stable"
             THEN <<"weight is stable">>
             ELSE <<>>

FatRecommendation(df) ==
    IF "body_fat_percent" \notin Columns(df) THEN <<>>
    ELSE LET fat_trend == calculate_trend(df, "body_fat_percent", RecommendationDays)
             last == df[Len(df)].body_fat_percent
         IN  IF fat_trend.trend = "decreasing"
             THEN <<"body fat is decreasing">>
             ELSE IF fat_trend.trend = "stable" /\ IsNum(last) /\ last.v > 20
             THEN <<"add more cardio">>
             ELSE <<>>

\* a trend that raised has no 'trend' key to read
RecommendationsRaise(df) ==
    /\ Len(df) >= 2
    /\ \E m \in {"weight_kg", "body_fat_percent"} \cap Columns(df) :
          IsRaised(calculate_trend(df, m, RecommendationDays))

\* AnalyticsEngine._generate_recommendations
generate_recommendations(df) ==
    IF Len(df) < 2 THEN <<"collect more data">>
    ELSE WeightRecommendation(df) \o FatRecommendation(df)

PeriodChangesRaise(df) ==
    Len(df) >= 2 /\ \E m \in Range(key_metrics) : EndChangeRaises(df, m)

generate_progress_report(data_file, photos, start_date, end_date, include_photos) ==
    LET data == get_body_composition_data(data_file, <<start_date>>, <<end_date>>, DefaultLimit)
        df == sort_values(data)
    IN  IF data = <<>> THEN [error |-> "No data available for the specified period"]
        ELSE IF \/ PeriodChangesRaise(df)
                \/ AchievementsRaise(df)
                \/ PeriodTrendsRaise(df)
                \/ InsightsRaise(df)
                \/ RecommendationsRaise(df)
        THEN [error |-> "Error generating progress report"]
        ELSE [report_info |-> [period |-> <<start_date, end_date>>,
                               duration_days |-> end_date - start_date],
              summary |-> [measurements_count |-> Len(data),
                           photos_count |-> IF include_photos THEN Len(photos) ELSE 0,
                           start_stats |-> get_period_stats(df[1]),
                           end_stats |-> get_period_stats(df[Len(df)])],
              key_changes |-> calculate_period_changes(df),
              achievements |-> identify_achievements(df),
              trends |-> get_period_trends(df),
              health_insights |-> generate_health_insights(df),
              photos_timeline |-> IF include_photos THEN photos ELSE <<>>,
              recommendations |-> generate_recommendations(df)]

(***************************************************************************)
(* The public operations as the engine runs them against its              *)
(* collaborators: each body is one try block whose except clause returns   *)
(* {"error": message}.  A collaborator either answers or raises.           *)
(***************************************************************************)
\* a call on a raising collaborator, or on None (AttributeError)
DataRaises(d) == d.data_processor \in {"RaisingProcessor", "None"}
PhotosRaise(d) == d.photo_manager \in {"RaisingManager", "None"}

\* the except clause, which lets an exception through
Uncaught(r, message) == r

\* except Exception as e: return {"error": f"{message}: {str(e)}"}
Caught(r, message) == IF IsRaised(r) THEN [error |-> message] ELSE r

try_get_metrics_summary(d, data_file) ==
    Caught(IF DataRaises(d) THEN Raised ELSE get_metrics_summary(data_file),
           "Error generating metrics summary")

try_get_trend_analysis(d, data_file, start_date, end_date, metrics) ==
    Caught(IF DataRaises(d) THEN Raised
           ELSE get_trend_analysis(data_file, start_date, end_date, metrics),
           "Error in trend analysis")

try_get_metric_correlations(d, data_file) ==
    Caught(IF DataRaises(d) THEN Raised ELSE get_metric_correlations(data_file),
           "Error calculating correlations")

try_get_progress_predictions(d, data_file, days_ahead) ==
    Caught(IF DataRaises(d) THEN Raised ELSE get_progress_predictions(data_file, days_ahead),
           "Error generating predictions")

\* get_latest_measurement catches what get_body_composition_data raises and
\* returns None
try_check_goal_progress(d, data_file, target_weight, target_date) ==
    Caught(IF DataRaises(d) THEN [error |-> "No measurement data available"]
           ELSE check_goal_progress(data_file, target_weight, target_date),
           "Error checking goal progress")

try_generate_progress_report(d, data_file, start_date, end_date, include_photos) ==
    Caught(IF DataRaises(d) THEN Raised
           ELSE IF include_photos /\ PhotosRaise(d)
                   /\ get_body_composition_data(data_file, <<start_date>>, <<end_date>>,
                                                DefaultLimit) # <<>>
           THEN Raised
           ELSE generate_progress_report(data_file, <<>>, start_date, end_date, include_photos),
           "Error generating progress report")

(***************************************************************************)
(* Stores.  process_excel_file leaves the file sorted newest first; a      *)
(* store of the model lists n records at decreasing ticks, the gaps        *)
(* between neighbours drawn from Gaps.                                     *)
(***************************************************************************)
Gaps == {1, TicksPerDay + 1}

RECURSIVE DatesFrom(_, _)
\* the ticks of the records, newest first, the oldest at tick `last`
DatesFrom(gaps, last) ==
    IF gaps = <<>> THEN <<last>>
    ELSE LET rest == DatesFrom(Tail(gaps), last)
         IN  <<rest[1] + Head(gaps)>> \o rest

GapSeqs(n) == [1..(n - 1) -> Gaps]

(***************************************************************************)
(* Specification SpecTrend: a store of one metric, and one request per     *)
(* behaviour: a single-metric helper applied to the sorted table as its    *)
(* callers apply it.  The helpers read the table and nothing else.         *)
(***************************************************************************)
TrendCells == {NaN, Num(0), Num(1), Num(3)}
TrendDays == {1, 2, 7}

TrendStores(max_records) ==
    UNION {
        { [i \in 1..n |-> [date |-> DatesFrom(g, 0)[i], weight_kg |-> c[i]]] :
            g \in GapSeqs(n), c \in [1..n -> TrendCells] } :
        n \in 2..max_records }

NoCall == [op |-> "none"]
Bound == [data_processor |-> "DataProcessor", photo_manager |-> "PhotoManager"]

InitTrend ==
    /\ store \in TrendStores(MaxRecords)
    /\ deps = Bound
    /\ call = NoCall
    /\ result = [none |-> TRUE]

CalculateTrend(metric, days) ==
    /\ call = NoCall
    /\ call' = [op |-> "calculate_trend", metric |-> metric, days |-> days]
    /\ result' = calculate_trend(sort_values(store), metric, days)
    /\ UNCHANGED <<store, deps>>

AnalyzeMetricTrend(metric) ==
    /\ call = NoCall
    /\ call' = [op |-> "analyze_metric_trend", metric |-> metric]
    /\ result' = analyze_metric_trend(sort_values(store), metric)
    /\ UNCHANGED <<store, deps>>

CalculateChangeVelocity(metric) ==
    /\ call = NoCall
    /\ call' = [op |-> "calculate_change_velocity", metric |-> metric]
    /\ result' = calculate_change_velocity(sort_values(store), metric)
    /\ UNCHANGED <<store, deps>>

CalculatePeriodChanges ==
    /\ call = NoCall
    /\ call' = [op |-> "calculate_period_changes"]
    /\ result' = calculate_period_changes(sort_values(store))
    /\ UNCHANGED <<store, deps>>

NextTrend ==
    \/ \E days \in TrendDays : CalculateTrend("weight_kg", days)
    \/ AnalyzeMetricTrend("weight_kg")
    \/ CalculateChangeVelocity("weight_kg")
    \/ CalculatePeriodChanges

SpecTrend == InitTrend /\ [][NextTrend]_vars

\* the in-window non-null values of the call, as numbers
CallWindow == CellValues(WindowValues(sort_values(store), call.metric, call.days))

(* C1: for every window holding at least 2 non-null values (all-equal     *)
(* windows included) _calculate_trend returns a direction in {increasing,  *)
(* decreasing, stable}, and whenever |slope| >= 0.1 * std the label agrees *)
(* with the sign of the slope: increasing only if slope > 0, decreasing    *)
(* only if slope < 0.                                                      *)
C1_DirectionAgreesWithSlope ==
    (call.op = "calculate_trend" /\ Len(CallWindow) >= 2) =>
        /\ result.trend \in {"increasing", "decreasing", "stable"}
        /\ ~BelowThreshold(CallWindow) =>
              /\ result.trend = "increasing" => SlopeNum(CallWindow) > 0
              /\ result.trend = "decreasing" => SlopeNum(CallWindow) < 0

\* the non-null values of the call's metric over the whole sorted table
CallValues == CellValues(dropna(Column(sort_values(store), call.metric)))

\* p hundredths is within half a hundredth of (end - start) / start * 100
IsPercentOf(p, start, end) ==
    2 * Abs(p * start - 10000 * (end - start)) <= Abs(start)

(* C7: every percent-change computation (windowed trend, full-series       *)
(* metric analysis, period key changes) yields exactly 0 when its baseline *)
(* value is 0 and never raises; for a non-zero baseline it yields          *)
(* (end - start) / start * 100, to the two decimals the code rounds to.    *)
C7_PercentChangeZeroBaseline ==
    /\ (call.op = "calculate_trend" /\ Len(CallWindow) >= 2) =>
          /\ "percent_change" \in DOMAIN result
          /\ CallWindow[1] = 0 => result.percent_change = 0
          /\ CallWindow[1] # 0 =>
                IsPercentOf(result.percent_change, CallWindow[1], CallWindow[Len(CallWindow)])
    /\ (call.op = "analyze_metric_trend" /\ Len(CallValues) >= 2) =>
          /\ "total_change_percent" \in DOMAIN result
          /\ CallValues[1] = 0 => result.total_change_percent = 0
          /\ CallValues[1] # 0 =>
                IsPercentOf(result.total_change_percent, CallValues[1], CallValues[Len(CallValues)])
    /\ (call.op = "calculate_period_changes" /\ Len(store) >= 2) =>
          LET df == sort_values(store)
              start == df[1].weight_kg
              end == df[Len(df)].weight_kg
          IN  /\ ~IsRaised(result)
              /\ "weight_kg" \in DOMAIN result
              /\ (IsNum(start) /\ start.v = 0) => result.weight_kg.percent = Num(0)
              /\ (IsNum(start) /\ start.v # 0 /\ IsNum(end)) =>
                    /\ IsNum(result.weight_kg.percent)
                    /\ IsPercentOf(result.weight_kg.percent.v, start.v, end.v)

\* a window that starts at 0 and ends elsewhere reports percent_change 0
C7_Witness ==
    /\ call.op = "calculate_trend"
    /\ Len(CallWindow) >= 2
    /\ CallWindow[1] = 0
    /\ CallWindow[Len(CallWindow)] = 3
    /\ result.percent_change = 0
    /\ result.change = 300

(* C10: for a metric with n >= 3 non-null points at any timestamps         *)
(* (several measurements within one day included)                          *)
(* _calculate_change_velocity computes one rate per consecutive pair,      *)
(* every rate is a well-defined finite number, and avg/max/min are taken   *)
(* over exactly these n - 1 rates.                                         *)
C10_VelocityRatesFinite ==
    (call.op = "calculate_change_velocity" /\ Len(CallValues) >= 3) =>
        LET df == sort_values(store)
            raw == RawRates(df, call.metric)
        IN  /\ Len(raw) = Len(CallValues) - 1
            /\ \A i \in 1..Len(raw) : raw[i].k = "num"
            /\ Len(Rates(df, call.metric)) = Len(CallValues) - 1
            /\ "avg_daily_change" \in DOMAIN result
            /\ IsNum(result.avg_daily_change)
            /\ IsNum(result.max_daily_change)
            /\ IsNum(result.min_daily_change)

(***************************************************************************)
(* Specification SpecCorr: stores of two or three metric columns, and      *)
(* get_metric_correlations over them.  weight_kg holds numbers, bmi holds  *)
(* numbers and nulls, body_fat_percent is absent or falls by one unit per  *)
(* record.                                                                 *)
(***************************************************************************)
MaxCorrRecords == 3
CorrCells == {Num(0), Num(1)}

CorrStores(max_records) ==
    UNION {
        { [i \in 1..n |-> [date |-> n - i, weight_kg |-> w[i], bmi |-> b[i]]] :
            w \in [1..n -> CorrCells], b \in [1..n -> TrendCells] }
        \cup
        { [i \in 1..n |-> [date |-> n - i, weight_kg |-> w[i], bmi |-> b[i],
                           body_fat_percent |-> Num(i)]] :
            w \in [1..n -> CorrCells], b \in [1..n -> TrendCells] } :
        n \in 1..max_records }

InitCorr ==
    /\ store \in CorrStores(MaxCorrRecords)
    /\ deps = Bound
    /\ call = NoCall
    /\ result = [none |-> TRUE]

GetMetricCorrelations ==
    /\ call = NoCall
    /\ call' = [op |-> "get_metric_correlations"]
    /\ result' = try_get_metric_correlations(deps, store)
    /\ UNCHANGED <<store, deps>>

NextCorr == GetMetricCorrelations

SpecCorr == InitCorr /\ [][NextCorr]_vars

CorrReturned == call.op = "get_metric_correlations" /\ "correlation_matrix" \in DOMAIN result

(* C8: for every series and every set of available metrics (constant      *)
(* columns and columns holding nulls included) the correlation matrix of   *)
(* get_metric_correlations is symmetric and every diagonal entry is 1.0.   *)
C8_MatrixSymmetricUnitDiagonal ==
    CorrReturned =>
        \A a \in DOMAIN result.correlation_matrix :
            /\ result.correlation_matrix[a][a] = Num(1000)
            /\ \A b \in DOMAIN result.correlation_matrix :
                  result.correlation_matrix[a][b] = result.correlation_matrix[b][a]

\* the entries of strong_correlations naming the metrics a and b, in this order
EntriesOf(a, b) ==
    {t \in 1..Len(result.strong_correlations) :
        result.strong_correlations[t].metric1 = a /\ result.strong_correlations[t].metric2 = b}

(* C9: get_metric_correlations lists an unordered pair of distinct metrics *)
(* in strong_correlations exactly when |r| > 0.7, at most once, tagged     *)
(* strong iff |r| > 0.8 and moderate otherwise, positive iff r > 0 and     *)
(* negative otherwise, with exactly one interpretation sentence per listed *)
(* pair, in the same order.                                                *)
C9_StrongPairsListed ==
    CorrReturned =>
        LET cols == Available(numeric_metrics, store)
            sc == result.strong_correlations
        IN  /\ \A i \in 1..Len(cols) : \A j \in 1..Len(cols) :
                  i < j =>
                    LET r == corr(store, cols[i], cols[j])
                    IN  /\ Cardinality(EntriesOf(cols[i], cols[j]))
                              = (IF AbsCorrAbove(r, 7) THEN 1 ELSE 0)
                        /\ EntriesOf(cols[j], cols[i]) = {}
                        /\ \A t \in EntriesOf(cols[i], cols[j]) :
                              /\ sc[t].strength = "strong" <=> AbsCorrAbove(r, 8)
                              /\ sc[t].strength = "moderate" <=> ~AbsCorrAbove(r, 8)
                              /\ sc[t].direction = "positive" <=> r.s > 0
                              /\ sc[t].direction = "negative" <=> ~(r.s > 0)
            /\ \A t \in 1..Len(sc) : sc[t].metric1 # sc[t].metric2
            /\ Len(result.insights) = Len(sc)
            /\ \A t \in 1..Len(sc) :
                  /\ result.insights[t].metric1 = sc[t].metric1
                  /\ result.insights[t].metric2 = sc[t].metric2
                  /\ result.insights[t].sentence = "tend to increase/decrease together"
                        <=> sc[t].direction = "positive"

\* a moderate negative and a strong positive pair are both listed, in loop order
C9_Witness ==
    /\ CorrReturned
    /\ Len(result.strong_correlations) = 2
    /\ result.strong_correlations[1].strength = "moderate"
    /\ result.strong_correlations[1].direction = "negative"
    /\ result.strong_correlations[2].strength = "strong"
    /\ Len(result.insights) = 2

(***************************************************************************)
(* Specification SpecGoal: stores of up to MaxGoalRecords weight records,  *)
(* the latest of them a number (weight_kg is a required field), and one    *)
(* check_goal_progress request.                                            *)
(***************************************************************************)
MaxGoalRecords == 2
GoalLatestCells == {Num(80), Num(81)}
GoalOlderCells == {NaN, Num(78), Num(80)}
TargetWeights == {75, 79, 80, 82}
TargetDays == {0, 1, 2, 3, 7, 8, 9, 14, 15, 16, 28, 35, 36, 37, 70, 71, 72, 175, 176}

GoalStores(max_records) ==
    {<<>>} \cup
    UNION {
        { [i \in 1..n |-> [date |-> DatesFrom(g, last)[i],
                           weight_kg |-> IF i = 1 THEN w ELSE older[i]]] :
            g \in GapSeqs(n), last \in 0..(TicksPerDay - 1),
            w \in GoalLatestCells, older \in [1..n -> GoalOlderCells] } :
        n \in 1..max_records }

InitGoal ==
    /\ store \in GoalStores(MaxGoalRecords)
    /\ deps = Bound
    /\ call = NoCall
    /\ result = [none |-> TRUE]

CheckGoalProgress(target_weight, target_date) ==
    /\ call = NoCall
    /\ call' = [op |-> "check_goal_progress",
                target_weight |-> target_weight, target_date |-> target_date]
    /\ result' = try_check_goal_progress(deps, store, target_weight, target_date)
    /\ UNCHANGED <<store, deps>>

NextGoal ==
    \E target_weight \in TargetWeights, target_date \in TargetDays :
        CheckGoalProgress(target_weight, target_date)

SpecGoal == InitGoal /\ [][NextGoal]_vars

GoalAccepted == call.op = "check_goal_progress" /\ "feasibility" \in DOMAIN result

\* the unrounded rate of an accepted goal is Delta * 7 / Days
GoalDelta == store[1].weight_kg.v - call.target_weight
GoalDays == result.days_remaining

(* C4: for every accepted goal check_goal_progress computes                *)
(* rate = (current - target) / (days_remaining / 7) and labels the         *)
(* unrounded rate: aggressive iff |rate| > 1.0, challenging iff            *)
(* 0.5 < |rate| <= 1.0, conservative iff |rate| < 0.2, realistic iff       *)
(* 0.2 <= |rate| <= 0.5; current 80, target 75, 70 days remaining gives    *)
(* weight_to_change 5, rate 0.5 and a label that is not aggressive.        *)
C4_FeasibilityBands ==
    GoalAccepted =>
        LET a == 7 * Abs(GoalDelta)
            d == GoalDays
        IN  /\ d >= 1
            /\ result.weight_to_change = Num(100 * GoalDelta)
            /\ IsNum(result.required_weekly_rate)
            /\ 2 * Abs(result.required_weekly_rate.v * d - 700 * GoalDelta) <= d
            /\ result.feasibility = "aggressive" <=> a > d
            /\ result.feasibility = "challenging" <=> (2 * a > d /\ a <= d)
            /\ result.feasibility = "conservative" <=> 5 * a < d
            /\ result.feasibility = "realistic" <=> (5 * a >= d /\ 2 * a <= d)
            /\ (store[1].weight_kg.v = 80 /\ call.target_weight = 75 /\ d = 70) =>
                  /\ result.weight_to_change = Num(500)
                  /\ result.required_weekly_rate = Num(50)
                  /\ result.feasibility # "aggressive"

\* 80 kg now, 75 kg in 70 days: rate 0.5, realistic
C4_Witness ==
    /\ GoalAccepted
    /\ store[1].weight_kg.v = 80
    /\ call.target_weight = 75
    /\ result.days_remaining = 70
    /\ result.required_weekly_rate = Num(50)
    /\ result.feasibility = "realistic"

(* C5: check_goal_progress returns the InvalidGoal error value ('Target    *)
(* date must be in the future'), with no assessment fields and without     *)
(* raising, whenever target_date is not strictly after the date of the     *)
(* latest measurement (equal or earlier).                                  *)
C5_InvalidGoalRejected ==
    (/\ call.op = "check_goal_progress"
     /\ store # <<>>
     /\ call.target_date <= store[1].date \div TicksPerDay) =>
        result = [error |-> "Target date must be in the future"]

\* the target is the day of the latest measurement, taken at midnight
C5_Witness ==
    /\ call.op = "check_goal_progress"
    /\ store # <<>>
    /\ Midnight(call.target_date) = store[1].date
    /\ result = [error |-> "Target date must be in the future"]

(***************************************************************************)
(* Specification SpecAchieve: a period of 2..MaxRecords weight records     *)
(* whose oldest weight is 90 kg, and one _identify_achievements request on *)
(* the period in timestamp order.                                          *)
(***************************************************************************)
AchieveFirstCells == {Num(90), NaN}
AchieveLastCells == {Num(79), Num(80), Num(84), Num(85), Num(88), Num(90), Num(92), Num(93), NaN}
AchieveMiddleCells == {Num(100), NaN}

AchieveStores(max_records) ==
    UNION {
        { [i \in 1..n |-> [date |-> DatesFrom(g, 0)[i],
                           weight_kg |-> IF i = 1 THEN newest
                                         ELSE IF i = n THEN oldest
                                         ELSE middle]] :
            g \in GapSeqs(n), newest \in AchieveLastCells,
            oldest \in AchieveFirstCells, middle \in AchieveMiddleCells } :
        n \in 2..max_records }

InitAchieve ==
    /\ store \in AchieveStores(MaxRecords)
    /\ deps = Bound
    /\ call = NoCall
    /\ result = [none |-> TRUE]

IdentifyAchievements ==
    /\ call = NoCall
    /\ call' = [op |-> "identify_achievements"]
    /\ result' = identify_achievements(sort_values(store))
    /\ UNCHANGED <<store, deps>>

NextAchieve == IdentifyAchievements

SpecAchieve == InitAchieve /\ [][NextAchieve]_vars

\* the period has a weight change: both of its end weights are numbers
HasWeightChange ==
    /\ call.op = "identify_achievements"
    /\ IsNum(store[1].weight_kg)
    /\ IsNum(store[Len(store)].weight_kg)

\* last weight - first weight in timestamp order (the store is newest first)
PeriodWeightChange == store[1].weight_kg.v - store[Len(store)].weight_kg.v

Emitted(type) == {i \in 1..Len(result) : result[i].type = type}

(* C6: for a period of at least 2 records with weight change = last - first *)
(* weight, _identify_achievements emits weight_loss iff change < -5, with  *)
(* category major iff change < -10 and significant otherwise, emits        *)
(* weight_gain (muscle_building) iff change > 2, and never both; exactly   *)
(* -5 emits neither and exactly -10 emits significant.                     *)
C6_WeightAchievementThresholds ==
    HasWeightChange =>
        LET change == PeriodWeightChange
            loss == Emitted("weight_loss")
            gain == Emitted("weight_gain")
        IN  /\ Cardinality(loss) = (IF change < -5 THEN 1 ELSE 0)
            /\ Cardinality(gain) = (IF change > 2 THEN 1 ELSE 0)
            /\ loss = {} \/ gain = {}
            /\ \A i \in loss :
                  result[i].category = (IF change < -10 THEN "major" ELSE "significant")
            /\ \A i \in gain : result[i].category = "muscle_building"
            /\ change = -5 => loss = {} /\ gain = {}
            /\ change = -10 => \E i \in loss : result[i].category = "significant"

\* a loss of exactly 10 kg, reported as significant
C6_Witness ==
    /\ HasWeightChange
    /\ PeriodWeightChange = -10
    /\ \E i \in Emitted("weight_loss") : result[i].category = "significant"

(***************************************************************************)
(* Specification SpecPredict: stores of about MinBatchRecords daily        *)
(* records with two of the predicted metrics, each holding a chosen number *)
(* of non-null values, and one get_progress_predictions request.           *)
(***************************************************************************)
MaxPredictRecords == 10
PredictCounts == {3, 4, 5, 6, 9}
PredictDaysAhead == {1, 30}

\* a column of n cells, newest first, with k numbers at the new or the old end
PredictColumn(n, k, newest, rising) ==
    [i \in 1..n |->
        IF (newest /\ i <= k) \/ (~newest /\ i > n - k)
        THEN Num(IF rising THEN n - i ELSE 1)
        ELSE NaN]

WeightColumns(n) ==
    {PredictColumn(n, k, newest, rising) :
        k \in PredictCounts, newest \in BOOLEAN, rising \in BOOLEAN}

BmiColumns(n) == {PredictColumn(n, k, TRUE, TRUE) : k \in {3, 5, 6}}

PredictStores(max_records) ==
    UNION {
        { [i \in 1..n |-> [date |-> (n - i) * TicksPerDay,
                           weight_kg |-> w[i]]] : w \in WeightColumns(n) }
        \cup
        { [i \in 1..n |-> [date |-> (n - i) * TicksPerDay,
                           weight_kg |-> w[i],
                           bmi |-> b[i]]] : w \in WeightColumns(n), b \in BmiColumns(n) } :
        n \in (MinBatchRecords - 1)..max_records }

InitPredict ==
    /\ store \in PredictStores(MaxPredictRecords)
    /\ deps = Bound
    /\ call = NoCall
    /\ result = [none |-> TRUE]

GetProgressPredictions(days_ahead) ==
    /\ call = NoCall
    /\ call' = [op |-> "get_progress_predictions", days_ahead |-> days_ahead]
    /\ result' = try_get_progress_predictions(deps, store, days_ahead)
    /\ UNCHANGED <<store, deps>>

NextPredict == \E days_ahead \in PredictDaysAhead : GetProgressPredictions(days_ahead)

SpecPredict == InitPredict /\ [][NextPredict]_vars

NonNullCount(metric) ==
    IF metric \in Columns(store) THEN Len(dropna(Column(store, metric))) ELSE 0

(* C3: in get_progress_predictions over a snapshot of at least 10 records  *)
(* and days_ahead >= 1 the batch does not fail, and the predictions map    *)
(* contains a metric of the predicted set exactly when that metric has at  *)
(* least 5 non-null values.                                                *)
C3_PredictedIffFivePoints ==
    (/\ call.op = "get_progress_predictions"
     /\ Len(store) >= 10
     /\ call.days_ahead >= 1) =>
        /\ "predictions" \in DOMAIN result
        /\ \A m \in Range(metrics_to_predict) :
              m \in DOMAIN result.predictions <=> NonNullCount(m) >= 5

(***************************************************************************)
(* Specification SpecReport: stores of 1..MaxReportRecords records with    *)
(* the numeric columns weight_kg and bmi and the text column bmi_category, *)
(* which _calculate_derived_metrics fills in for a record that has a bmi,  *)
(* and one composite report request.                                       *)
(***************************************************************************)
MaxReportRecords == 3
ReportWeightCells == {Num(0), Num(1)}
ReportCategoryCells == {Str, NaN}
ReportMetrics ==
    {<<"weight_kg">>, <<"weight_kg", "bmi_category">>, <<"bmi_category">>, <<"weight_kg", "bmi">>,
     <<"muscle_mass_kg", "bmi", "weight_kg">>}
ReportRanges == {<<0, 3>>, <<1, 3>>, <<0, 0>>}

ReportStores(max_records) ==
    UNION {
        { [i \in 1..n |-> [date |-> DatesFrom(g, 0)[i],
                           weight_kg |-> w[i],
                           bmi |-> IF i = 1 /\ c = NaN THEN NaN ELSE Num(i),
                           bmi_category |-> IF i = 1 THEN c ELSE Str]] :
            g \in GapSeqs(n), w \in [1..n -> ReportWeightCells], c \in ReportCategoryCells } :
        n \in 1..max_records }

InitReport ==
    /\ store \in ReportStores(MaxReportRecords)
    /\ deps = Bound
    /\ call = NoCall
    /\ result = [none |-> TRUE]

GetTrendAnalysis(start_date, end_date, metrics) ==
    /\ call = NoCall
    /\ call' = [op |-> "get_trend_analysis", start_date |-> start_date,
                end_date |-> end_date, metrics |-> metrics]
    /\ result' = try_get_trend_analysis(deps, store, start_date, end_date, metrics)
    /\ UNCHANGED <<store, deps>>

GetMetricsSummary ==
    /\ call = NoCall
    /\ call' = [op |-> "get_metrics_summary"]
    /\ result' = try_get_metrics_summary(deps, store)
    /\ UNCHANGED <<store, deps>>

NextReport ==
    \/ \E r \in ReportRanges, metrics \in ReportMetrics : GetTrendAnalysis(r[1], r[2], metrics)
    \/ GetMetricsSummary

SpecReport == InitReport /\ [][NextReport]_vars

\* the records of the requested period, in timestamp order
ReportPeriod ==
    sort_values(get_body_composition_data(store, <<call.start_date>>, <<call.end_date>>,
                                          DefaultLimit))

\* the requested metrics whose column holds at least 2 numbers and no text
Analysable ==
    {m \in Range(call.metrics) :
        /\ m \in Columns(ReportPeriod)
        /\ ~HasStr(Column(ReportPeriod, m))
        /\ Len(dropna(Column(ReportPeriod, m))) > 1}

(* C2: in get_trend_analysis and get_metrics_summary a failure raised      *)
(* while analysing one metric does not abort the report: the result is not *)
(* a top-level error and still contains the entries of every other         *)
(* requested metric.                                                       *)
C2_MetricFailureIsolated ==
    /\ (call.op = "get_trend_analysis" /\ Len(ReportPeriod) >= 2) =>
          /\ "metrics_analysis" \in DOMAIN result
          /\ Analysable \subseteq DOMAIN result.metrics_analysis
    /\ (call.op = "get_metrics_summary" /\ store # <<>>) =>
          /\ "current_stats" \in DOMAIN result
          /\ "weight_kg" \in DOMAIN result.current_stats

(***************************************************************************)
(* Specification SpecProgression: stores of 2..MaxProgressionRecords daily *)
(* records whose weights fall by a constant step, as many as one           *)
(* get_body_composition_data() call returns (at most DefaultLimit), and    *)
(* one _calculate_trend request over a window of the summary's lengths.    *)
(***************************************************************************)
MaxProgressionRecords == 36
ProgressionSteps == {-2, -1}
ProgressionStarts == {80, 100}
ProgressionDays == {7, 30, 90}

ProgressionStores(max_records) ==
    { [i \in 1..n |-> [date |-> (n - i) * TicksPerDay,
                       weight_kg |-> Num(first + (n - i) * d)]] :
        n \in 2..max_records, d \in ProgressionSteps, first \in ProgressionStarts }

InitProgression ==
    /\ store \in ProgressionStores(MaxProgressionRecords)
    /\ deps = Bound
    /\ call = NoCall
    /\ result = [none |-> TRUE]

NextProgression == \E days \in ProgressionDays : CalculateTrend("weight_kg", days)

SpecProgression == InitProgression /\ [][NextProgression]_vars

\* the window holds at least 2 values falling by a constant step
FallingProgression ==
    /\ call.op = "calculate_trend"
    /\ Len(CallWindow) >= 2
    /\ CallWindow[2] < CallWindow[1]
    /\ \A i \in 1..(Len(CallWindow) - 1) :
          CallWindow[i + 1] - CallWindow[i] = CallWindow[2] - CallWindow[1]

\* slope = d and percent_change = (end - start) / start * 100 (to 2 decimals)
ProgressionSlopeAndPercent ==
    /\ result.slope = (CallWindow[2] - CallWindow[1]) * 10000
    /\ IsPercentOf(result.percent_change, CallWindow[1], CallWindow[Len(CallWindow)])

(* C11, as stated: for any window of n >= 2 non-null values in arithmetic  *)
(* progression with common difference d < 0, for every n the data source   *)
(* can supply, _calculate_trend reports slope = d, direction decreasing    *)
(* and percent_change = (end - start) / start * 100.                       *)
C11_ProgressionDecreasing ==
    FallingProgression =>
        /\ ProgressionSlopeAndPercent
        /\ result.trend = "decreasing"

(* C11, amended: slope = d and percent_change = (end - start) / start *    *)
(* 100 for every such window, and the direction is decreasing exactly when *)
(* the window holds at most 34 values; from 35 values on 0.1 * std exceeds *)
(* |d| and the direction is stable.                                        *)
C11_ProgressionDecreasingUpTo34 ==
    FallingProgression =>
        /\ ProgressionSlopeAndPercent
        /\ result.trend = (IF Len(CallWindow) <= 34 THEN "decreasing" ELSE "stable")

\* [80, 79, 78, 77]: slope -1.0, decreasing, -3.75
C11_Witness ==
    /\ FallingProgression
    /\ CallWindow = <<80, 79, 78, 77>>
    /\ result.slope = -10000
    /\ result.trend = "decreasing"
    /\ result.percent_change = -375

(***************************************************************************)
(* Specification SpecOrder: the engine bound by set_dependencies to a data *)
(* processor that returns the records of the file in any order, and one    *)
(* get_metrics_summary request.  The records have distinct timestamps.     *)
(***************************************************************************)
\* the orders in which a collaborator can return the records of s
Orderings(s) ==
    { [i \in 1..Len(s) |-> s[f[i]]] :
        f \in {g \in [1..Len(s) -> 1..Len(s)] : \A i, j \in 1..Len(s) : g[i] = g[j] => i = j} }

OrderStores(max_records) ==
    UNION {
        UNION { Orderings([i \in 1..n |-> [date |-> DatesFrom(g, 0)[i], weight_kg |-> w[i]]]) :
                    g \in GapSeqs(n), w \in [1..n -> ReportWeightCells] } :
        n \in 1..max_records }

InitOrder ==
    /\ store \in OrderStores(MaxReportRecords)
    /\ deps = Bound
    /\ call = NoCall
    /\ result = [none |-> TRUE]

NextOrder == GetMetricsSummary

SpecOrder == InitOrder /\ [][NextOrder]_vars

(* C12: the result of get_metrics_summary does not depend on the order in  *)
(* which the records are returned: every permutation of the same records   *)
(* gives the identical summary, and overview.latest_measurement is the     *)
(* timestamp of the chronologically last record.                           *)
C12_SummaryOrderIndependent ==
    (call.op = "get_metrics_summary" /\ store # <<>>) =>
        /\ \A other \in Orderings(store) : get_metrics_summary(other) = result
        /\ result.overview.latest_measurement = MaxDate(store)

(***************************************************************************)
(* Specification SpecFaults: the engine bound to collaborators that answer *)
(* or raise, a store that is empty, short with a text column, or long      *)
(* enough for the prediction batch, and one request to a public operation. *)
(***************************************************************************)
FaultDeps ==
    [data_processor : {"DataProcessor", "RaisingProcessor"},
     photo_manager : {"PhotoManager", "RaisingManager"}]

FaultStores(max_records) ==
    {<<>>} \cup ReportStores(max_records)
           \cup {st \in PredictStores(MinBatchRecords) : Len(st) = MinBatchRecords}

FaultMetrics == {<<"weight_kg">>, <<"weight_kg", "bmi_category">>, <<"weight_kg", "bmi">>}
FaultRanges == {<<0, 3>>, <<3, 0>>}
FaultDaysAhead == {0, 30}
FaultTargetDays == {0, 70}

InitFaults ==
    /\ store \in FaultStores(MaxReportRecords)
    /\ deps \in FaultDeps
    /\ call = NoCall
    /\ result = [none |-> TRUE]

GenerateProgressReport(start_date, end_date, include_photos) ==
    /\ call = NoCall
    /\ call' = [op |-> "generate_progress_report", start_date |-> start_date,
                end_date |-> end_date, include_photos |-> include_photos]
    /\ result' = try_generate_progress_report(deps, store, start_date, end_date, include_photos)
    /\ UNCHANGED <<store, deps>>

\* a target_date that datetime.strptime(target_date, '%Y-%m-%d') rejects
CheckGoalProgressUnparsed(target_weight) ==
    /\ call = NoCall
    /\ call' = [op |-> "check_goal_progress", target_weight |-> target_weight,
                target_date |-> "unparsed"]
    /\ result' = Caught(IF DataRaises(deps) \/ store = <<>>
                        THEN [error |-> "No measurement data available"]
                        ELSE Raised,
                        "Error checking goal progress")
    /\ UNCHANGED <<store, deps>>

NextFaults ==
    \/ GetMetricsSummary
    \/ \E r \in FaultRanges, metrics \in FaultMetrics : GetTrendAnalysis(r[1], r[2], metrics)
    \/ GetMetricCorrelations
    \/ \E days_ahead \in FaultDaysAhead : GetProgressPredictions(days_ahead)
    \/ \E target_date \in FaultTargetDays : CheckGoalProgress(75, target_date)
    \/ CheckGoalProgressUnparsed(75)
    \/ \E r \in FaultRanges, include_photos \in BOOLEAN :
          GenerateProgressReport(r[1], r[2], include_photos)

SpecFaults == InitFaults /\ [][NextFaults]_vars

PublicOperations ==
    {"get_metrics_summary", "get_trend_analysis", "get_metric_correlations",
     "get_progress_predictions", "check_goal_progress", "generate_progress_report"}

(* C13: every public AnalyticsEngine operation returns a value for every   *)
(* input and every collaborator behaviour, a raising collaborator          *)
(* included: it never raises, and the value is either a report or a        *)
(* mapping whose only key is 'error', never report fields together with a  *)
(* top-level 'error'.                                                      *)
C13_PublicOperationsTotal ==
    call.op \in PublicOperations =>
        /\ ~IsRaised(result)
        /\ "error" \in DOMAIN result => DOMAIN result = {"error"}

\* the data processor raised inside generate_progress_report
C13_Witness ==
    /\ call.op = "generate_progress_report"
    /\ DataRaises(deps)
    /\ result = [error |-> "Error generating progress report"]

\* no requested metric is a text column of the period
NumericRequest ==
    \A m \in Range(call.metrics) \cap Columns(ReportPeriod) : ~HasStr(Column(ReportPeriod, m))

InWindowCount ==
    Cardinality({i \in 1..Len(store) :
                    /\ store[i].date >= MaxDate(store) - call.days * TicksPerDay
                    /\ IsNum(store[i][call.metric])})

(* C15: _calculate_trend returns {'trend': 'insufficient_data'}, without   *)
(* raising, exactly when fewer than 2 non-null values of the metric lie in *)
(* the window, and a full trend result (direction, slope, change,          *)
(* percent_change, data_points, period_days) otherwise.                    *)
C15_InsufficientDataFlag ==
    call.op = "calculate_trend" =>
        /\ ~IsRaised(result)
        /\ result = [trend |-> "insufficient_data"] <=> InWindowCount < 2
        /\ InWindowCount >= 2 =>
              /\ DOMAIN result = {"trend", "slope", "change", "percent_change",
                                  "data_points", "period_days"}
              /\ result.trend \in {"increasing", "decreasing", "stable"}
              /\ result.data_points = InWindowCount
              /\ result.period_days = call.days

\* three records in the window, one of them with a weight
C15_Witness ==
    /\ call.op = "calculate_trend"
    /\ Cardinality({i \in 1..Len(store) :
                       store[i].date >= MaxDate(store) - call.days * TicksPerDay}) = 3
    /\ InWindowCount = 1
    /\ result = [trend |-> "insufficient_data"]

\* the metrics of a correlation request that are columns of its table
CorrelationInputs ==
    IF call.op = "get_trend_analysis"
    THEN Range(call.metrics) \cap Columns(ReportPeriod)
    ELSE Range(numeric_metrics) \cap Columns(store)

\* the value a correlation analysis gives when it reports insufficient data
IsInsufficient(r) == DOMAIN r = {"error"}

(* C16: correlation analysis yields InsufficientData whenever fewer than 2 *)
(* of the metrics are available in the series, at both entry points (the   *)
(* correlations field of get_trend_analysis and get_metric_correlations),  *)
(* and correlation values with 2 or more available metrics.                *)
C16_CorrelationNeedsTwoMetrics ==
    /\ (call.op = "get_trend_analysis" /\ "correlations" \in DOMAIN result) =>
          IsInsufficient(result.correlations) <=> Cardinality(CorrelationInputs) < 2
    /\ (call.op = "get_metric_correlations" /\ ~DataRaises(deps) /\ store # <<>>) =>
          IsInsufficient(result) <=> Cardinality(CorrelationInputs) < 2

(* C17: get_progress_predictions returns the InsufficientData error value  *)
(* exactly when the snapshot holds fewer than 10 records, whatever the     *)
(* per-metric counts are; with 10 or more records it returns a result with *)
(* prediction_period = days_ahead and base_data_points = number of records.*)
C17_BatchNeedsTenRecords ==
    call.op = "get_progress_predictions" =>
        /\ result = [error |-> "Insufficient data for predictions"] <=> Len(store) < 10
        /\ Len(store) >= 10 =>
              /\ "error" \notin DOMAIN result
              /\ result.prediction_period = call.days_ahead
              /\ result.base_data_points = Len(store)

\* 9 records, every one with a weight: enough for the metric, not for the batch
C17_Witness ==
    /\ call.op = "get_progress_predictions"
    /\ Len(store) = 9
    /\ NonNullCount("weight_kg") = 9
    /\ result = [error |-> "Insufficient data for predictions"]

(***************************************************************************)
(* Specification SpecInsights: a series of 1..MaxInsightRecords records    *)
(* whose latest record carries a BMI at or next to every band edge (in     *)
(* halves of a unit) or no BMI, and one _generate_health_insights request  *)
(* on the series in timestamp order.  The earlier records hold numbers in  *)
(* every column, so a null of the latest record is a NaN of a float column.*)
(***************************************************************************)
MaxInsightRecords == 3
InsightBmiCells == {Num(36), Num(37), Num(49), Num(50), Num(59), Num(60), Num(61), NaN}
InsightFatCells == {Num(12), Num(30), NaN}
InsightWaterCells == {Num(45), Num(60)}

InsightStores(max_records) ==
    UNION {
        { [i \in 1..n |-> [date |-> DatesFrom(g, 0)[i],
                           bmi |-> IF i = 1 THEN b ELSE Num(44),
                           body_fat_percent |-> IF i = 1 THEN f ELSE Num(22),
                           body_water_percent |-> IF i = 1 THEN w ELSE Num(55)]] :
            g \in GapSeqs(n), b \in InsightBmiCells, f \in InsightFatCells,
            w \in InsightWaterCells } :
        n \in 1..max_records }

InitInsights ==
    /\ store \in InsightStores(MaxInsightRecords)
    /\ deps = Bound
    /\ call = NoCall
    /\ result = [none |-> TRUE]

GenerateHealthInsights ==
    /\ call = NoCall
    /\ call' = [op |-> "generate_health_insights"]
    /\ result' = generate_health_insights(sort_values(store))
    /\ UNCHANGED <<store, deps>>

NextInsights == GenerateHealthInsights

SpecInsights == InitInsights /\ [][NextInsights]_vars

\* the chronologically last measurement of a series, its timestamp left out
LatestFields(series) ==
    LET latest == sort_values(series)[Len(series)]
    IN  [m \in DOMAIN latest \ {"date"} |-> latest[m]]

(* C18: the health insights are a function of the latest measurement       *)
(* alone: any two series of any lengths (a single-record series included)  *)
(* whose chronologically last measurement is the same produce the same     *)
(* insight list.                                                           *)
C18_InsightsOfLatestAlone ==
    call.op = "generate_health_insights" =>
        \A other \in InsightStores(MaxInsightRecords) :
            LatestFields(other) = LatestFields(store) =>
                generate_health_insights(sort_values(other)) = result

\* the BMI advisories of the returned list
BmiAdvisories ==
    {i \in 1..Len(result) : result[i] \in {"underweight", "healthy", "overweight", "obese"}}

(* C19: for the latest measurement of a series of at least 2 records,      *)
(* _generate_health_insights emits exactly one BMI advisory chosen by      *)
(* band: underweight iff BMI < 18.5, healthy iff 18.5 <= BMI < 25,         *)
(* overweight iff 25 <= BMI < 30, obese iff BMI >= 30; the obese advisory  *)
(* is never emitted for a BMI that is not a number >= 30, null included.   *)
C19_BmiBands ==
    (call.op = "generate_health_insights" /\ Len(store) >= 2) =>
        LET bmi == store[1].bmi
            emitted(advisory) == \E i \in BmiAdvisories : result[i] = advisory
        IN  /\ Cardinality(BmiAdvisories) <= 1
            /\ IsNum(bmi) => Cardinality(BmiAdvisories) = 1
            /\ emitted("underweight") <=> (IsNum(bmi) /\ bmi.v < 37)
            /\ emitted("healthy") <=> (IsNum(bmi) /\ 37 <= bmi.v /\ bmi.v < 50)
            /\ emitted("overweight") <=> (IsNum(bmi) /\ 50 <= bmi.v /\ bmi.v < 60)
            /\ emitted("obese") <=> (IsNum(bmi) /\ bmi.v >= 60)

(***************************************************************************)
(* Specification SpecMilestones: a period of 2..MaxMilestoneRecords        *)
(* records whose oldest body fat is 20 % and oldest muscle mass 30 kg (or  *)
(* null), whose newest values sit at and next to every milestone           *)
(* threshold, and one _identify_achievements request on the period in      *)
(* timestamp order.                                                        *)
(***************************************************************************)
MaxMilestoneRecords == 3
MilestoneFatFirst == {Num(20), NaN}
MilestoneFatLast == {Num(14), Num(15), Num(17), Num(18), Num(19), Num(20), Num(23), NaN}
MilestoneMuscleFirst == {Num(30), NaN}
MilestoneMuscleLast == {Num(29), Num(30), Num(31), Num(32), NaN}
MilestoneWeightLast == {Num(80), Num(74)}

MilestoneStores(max_records) ==
    UNION {
        { [i \in 1..n |-> [date |-> DatesFrom(g, 0)[i],
                           weight_kg |-> IF i = 1 THEN w ELSE Num(80),
                           body_fat_percent |-> IF i = 1 THEN f[2]
                                                ELSE IF i = n THEN f[1] ELSE Num(5),
                           muscle_mass_kg |-> IF i = 1 THEN m[2]
                                              ELSE IF i = n THEN m[1] ELSE Num(40)]] :
            g \in GapSeqs(n), w \in MilestoneWeightLast,
            f \in MilestoneFatFirst \X MilestoneFatLast,
            m \in MilestoneMuscleFirst \X MilestoneMuscleLast } :
        n \in 2..max_records }

InitMilestones ==
    /\ store \in MilestoneStores(MaxMilestoneRecords)
    /\ deps = Bound
    /\ call = NoCall
    /\ result = [none |-> TRUE]

NextMilestones == IdentifyAchievements

SpecMilestones == InitMilestones /\ [][NextMilestones]_vars

\* both end cells of a metric of the period are numbers
HasChange(metric) == IsNum(store[1][metric]) /\ IsNum(store[Len(store)][metric])

\* last value - first value in timestamp order (the store is newest first)
PeriodChange(metric) == store[1][metric].v - store[Len(store)][metric].v

(* C20: for a period of at least 2 records, _identify_achievements emits   *)
(* fat_loss iff (last body fat - first body fat) < -2, with category       *)
(* 'major' iff that change < -5 and 'significant' otherwise, and emits     *)
(* muscle_gain with category 'muscle_building' iff (last muscle mass -     *)
(* first muscle mass) > 1; changes of exactly -2 and exactly 1 emit        *)
(* nothing, and each achievement type appears at most once.                *)
C20_FatAndMuscleMilestones ==
    (call.op = "identify_achievements" /\ Len(store) >= 2) =>
        /\ \A type \in {"fat_loss", "muscle_gain", "weight_loss", "weight_gain"} :
              Cardinality(Emitted(type)) <= 1
        /\ Emitted("fat_loss") # {} <=>
              (HasChange("body_fat_percent") /\ PeriodChange("body_fat_percent") < -2)
        /\ \A i \in Emitted("fat_loss") :
              /\ result[i].category \in {"major", "significant"}
              /\ result[i].category = "major" <=> PeriodChange("body_fat_percent") < -5
              /\ result[i].value = -PeriodChange("body_fat_percent")
        /\ Emitted("muscle_gain") # {} <=>
              (HasChange("muscle_mass_kg") /\ PeriodChange("muscle_mass_kg") > 1)
        /\ \A i \in Emitted("muscle_gain") :
              /\ result[i].category = "muscle_building"
              /\ result[i].value = PeriodChange("muscle_mass_kg")

\* body fat fell by exactly 2 points and muscle mass rose by exactly 1 kg:
\* neither milestone is emitted, the weight loss of 6 kg is
C20_Witness ==
    /\ call.op = "identify_achievements"
    /\ HasChange("body_fat_percent") /\ PeriodChange("body_fat_percent") = -2
    /\ HasChange("muscle_mass_kg") /\ PeriodChange("muscle_mass_kg") = 1
    /\ Emitted("fat_loss") = {} /\ Emitted("muscle_gain") = {}
    /\ Emitted("weight_loss") # {}

(***************************************************************************)
(* Specification SpecWiring: the module body of main.py and the requests   *)
(* served after it.  The engine is constructed with both collaborators     *)
(* None; the next statement of the module body binds them; the endpoints   *)
(* are served once the module body has run, in any number and any order.   *)
(***************************************************************************)
MaxWiringRecords == 2
Unbound == [data_processor |-> "None", photo_manager |-> "None"]

WiringStores(max_records) == {<<>>} \cup ReportStores(max_records)
WiringRanges == {<<0, 3>>}
WiringMetrics == {<<"weight_kg">>, <<"weight_kg", "bmi">>}
WiringTargetDays == {0, 70}

\* AnalyticsEngine.set_dependencies(data_processor, photo_manager)
set_dependencies(d, data_processor, photo_manager) ==
    [d EXCEPT !.data_processor = data_processor, !.photo_manager = photo_manager]

\* requests served whether or not the module body has bound the engine
ServingAlways(d) == TRUE

\* the endpoints answer once the module body, whose last service statement
\* is the set_dependencies call, has run
Serving(d) == d # Unbound

InitWiring ==
    /\ store \in WiringStores(MaxWiringRecords)
    /\ deps = Unbound
    /\ call = NoCall
    /\ result = [none |-> TRUE]

\* analytics_engine.set_dependencies(data_processor, photo_manager), the one
\* call site, executed once while the module is loaded
SetDependencies ==
    /\ deps = Unbound
    /\ call = NoCall
    /\ deps' = set_dependencies(deps, Bound.data_processor, Bound.photo_manager)
    /\ UNCHANGED <<store, call, result>>

\* one request to an analytics endpoint, answered with the engine's value
Endpoint(request, response) ==
    /\ Serving(deps)
    /\ call' = request
    /\ result' = response
    /\ UNCHANGED <<store, deps>>

NextWiring ==
    \/ SetDependencies
    \/ Endpoint([op |-> "get_metrics_summary"], try_get_metrics_summary(deps, store))
    \/ \E r \in WiringRanges, metrics \in WiringMetrics :
          Endpoint([op |-> "get_trend_analysis", start_date |-> r[1], end_date |-> r[2],
                    metrics |-> metrics],
                   try_get_trend_analysis(deps, store, r[1], r[2], metrics))
    \/ Endpoint([op |-> "get_metric_correlations"], try_get_metric_correlations(deps, store))
    \/ \E days_ahead \in FaultDaysAhead :
          Endpoint([op |-> "get_progress_predictions", days_ahead |-> days_ahead],
                   try_get_progress_predictions(deps, store, days_ahead))
    \/ \E target_date \in WiringTargetDays :
          Endpoint([op |-> "check_goal_progress", target_weight |-> 75,
                    target_date |-> target_date],
                   try_check_goal_progress(deps, store, 75, target_date))
    \/ \E r \in WiringRanges, include_photos \in BOOLEAN :
          Endpoint([op |-> "generate_progress_report", start_date |-> r[1],
                    end_date |-> r[2], include_photos |-> include_photos],
                   try_generate_progress_report(deps, store, r[1], r[2], include_photos))

SpecWiring == InitWiring /\ [][NextWiring]_vars

MaxPairRecords == 2
PairNames == {"weight_kg", "bmi", "body_fat_percent", "muscle_mass_kg"}

\* the lists of distinct names, of every length and in every order
PairLists ==
    UNION { {l \in [1..k -> PairNames] : \A i, j \in 1..k : l[i] = l[j] => i = j} :
            k \in 1..Cardinality(PairNames) }

InitPairs ==
    /\ store \in CorrStores(MaxPairRecords)
    /\ deps = Bound
    /\ call = NoCall
    /\ result = [none |-> TRUE]

CalculateCorrelations(metrics) ==
    /\ call = NoCall
    /\ call' = [op |-> "calculate_correlations", metrics |-> metrics]
    /\ result' = calculate_correlations(sort_values(store), metrics)
    /\ UNCHANGED <<store, deps>>

NextPairs == \E metrics \in PairLists : CalculateCorrelations(metrics)

SpecPairs == InitPairs /\ [][NextPairs]_vars

\* the positions of the caller's list whose metric is a column of the series
AvailablePositions == {i \in 1..Len(call.metrics) : call.metrics[i] \in DOMAIN store[1]}

(* C22: for a caller-supplied list of k >= 2 distinct available metrics,   *)
(* _calculate_correlations returns exactly k(k-1)/2 entries, one per       *)
(* unordered pair, and the key of each pair is '<a>_vs_<b>' where a        *)
(* precedes b in the caller-supplied list; metrics not in the series       *)
(* contribute no key.                                                      *)
C22_PairKeysFollowCallerOrder ==
    (call.op = "calculate_correlations" /\ Cardinality(AvailablePositions) >= 2) =>
        LET k == Cardinality(AvailablePositions)
        IN  /\ DOMAIN result = {"pairs"}
            /\ DOMAIN result.pairs =
                  {<<call.metrics[p[1]], call.metrics[p[2]]>> :
                      p \in {q \in AvailablePositions \X AvailablePositions : q[1] < q[2]}}
            /\ 2 * Cardinality(DOMAIN result.pairs) = k * (k - 1)
            /\ \A key \in DOMAIN result.pairs :
                  /\ key[1] \in DOMAIN store[1] /\ key[2] \in DOMAIN store[1]
                  /\ <<key[2], key[1]>> \notin DOMAIN result.pairs

\* body_fat_percent listed before weight_kg, with an absent metric between
\* them: three keys, each with body_fat_percent or bmi first
C22_Witness ==
    /\ call.op = "calculate_correlations"
    /\ call.metrics = <<"body_fat_percent", "muscle_mass_kg", "bmi", "weight_kg">>
    /\ "body_fat_percent" \in DOMAIN store[1]
    /\ DOMAIN result.pairs = {<<"body_fat_percent", "bmi">>, <<"body_fat_percent", "weight_kg">>,
                               <<"bmi", "weight_kg">>}

(* C23: in every successful get_trend_analysis response, each value of the *)
(* predictions map is a complete prediction record (current_value,         *)
(* predicted_value, change, confidence, trend); a metric for which no      *)
(* prediction is computable (fewer than 5 non-null points) has no entry in *)
(* predictions rather than an empty or null one.                           *)
C23_PredictionsComplete ==
    (call.op = "get_trend_analysis" /\ "error" \notin DOMAIN result) =>
        \A m \in DOMAIN result.predictions :
            /\ DOMAIN result.predictions[m] =
                  {"current_value", "predicted_value", "change", "confidence", "trend"}
            /\ Len(dropna(Column(ReportPeriod, m))) >= 5

(* C24: check_goal_progress returns InvalidGoal only when the target date  *)
(* is not strictly after the latest measurement: for every target_date     *)
(* later than the timestamp of the latest measurement (by less than one    *)
(* day included) it returns an assessment, and every returned assessment   *)
(* has days_remaining >= 1 and weeks_remaining = days_remaining / 7 (to    *)
(* the one decimal the result carries).                                    *)
C24_InvalidGoalOnlyWhenNotAfter ==
    (call.op = "check_goal_progress" /\ store # <<>>) =>
        /\ Midnight(call.target_date) > store[1].date => "error" \notin DOMAIN result
        /\ "error" \notin DOMAIN result =>
              /\ result.days_remaining >= 1
              /\ result.weeks_remaining = Round(result.days_remaining, 7, 1)

(***************************************************************************)
(* Specification SpecForecast: weight series of 5..7 and of                *)
(* 29..MaxForecastRecords non-null values, flat at 0 but for its oldest    *)
(* value, one value ten places from the end and its newest value, with     *)
(* or without a null record next to the newest one, and one                *)
(* _predict_metric request on the series in timestamp order.               *)
(***************************************************************************)
MaxForecastRecords == 31
ForecastLengths == 5..7 \cup 29..MaxForecastRecords
ForecastOldest == {0, 5}
ForecastMiddle == {0, 1}
ForecastNewest == {-1, 0, 2}
ForecastDaysAhead == {1, 7, 30}

\* the series newest first: cell i of n is chronological value n + 1 - i
ForecastColumn(n, oldest, middle, newest) ==
    [i \in 1..n |-> Num(IF i = 1 THEN newest
                        ELSE IF i = n THEN oldest
                        ELSE IF i = 4 THEN middle
                        ELSE 0)]

ForecastStores(lengths) ==
    UNION {
        { [i \in 1..n |-> [date |-> (n - i) * TicksPerDay,
                           weight_kg |-> ForecastColumn(n, o, m, w)[i]]] :
            o \in ForecastOldest, m \in ForecastMiddle, w \in ForecastNewest }
        \cup
        { [i \in 1..(n + 1) |->
              [date |-> (n + 1 - i) * TicksPerDay,
               weight_kg |-> IF i = 1 THEN ForecastColumn(n, o, m, w)[1]
                             ELSE IF i = 2 THEN NaN
                             ELSE ForecastColumn(n, o, m, w)[i - 1]]] :
            o \in ForecastOldest, m \in ForecastMiddle, w \in ForecastNewest } :
        n \in lengths }

InitForecast ==
    /\ store \in ForecastStores(ForecastLengths)
    /\ deps = Bound
    /\ call = NoCall
    /\ result = [none |-> TRUE]

PredictMetric(metric, days_ahead) ==
    /\ call = NoCall
    /\ call' = [op |-> "predict_metric", metric |-> metric, days_ahead |-> days_ahead]
    /\ result' = predict_metric(sort_values(store), metric, days_ahead)
    /\ UNCHANGED <<store, deps>>

NextForecast == \E days_ahead \in ForecastDaysAhead : PredictMetric("weight_kg", days_ahead)

SpecForecast == InitForecast /\ [][NextForecast]_vars

\* the non-null weights of the store, oldest first (the store is newest first)
ForecastValues ==
    LET oldest_first == [i \in 1..Len(store) |-> store[Len(store) + 1 - i].weight_kg]
        numbers == SelectSeq(oldest_first, IsNum)
    IN  [i \in 1..Len(numbers) |-> numbers[i].v]

\* its last m = min(30, n) values, fitted at positions 0..m-1
ForecastWindow ==
    LET n == Len(ForecastValues)
        m == IF n < 30 THEN n ELSE 30
    IN  SubSeq(ForecastValues, n - m + 1, n)

(* C25: for a metric with n >= 5 non-null values and days_ahead >= 1,      *)
(* _predict_metric fits the least-squares line on the last m = min(30, n)  *)
(* non-null values at positions 0..m-1 and reports as predicted_value the  *)
(* line's value at position (m-1) + days_ahead, exactly days_ahead steps   *)
(* beyond the last fitted index, with current_value the last non-null      *)
(* value.                                                                  *)
C25_PredictionBeyondLastIndex ==
    (/\ call.op = "predict_metric"
     /\ Len(ForecastValues) >= 5
     /\ call.days_ahead >= 1) =>
        LET m == Len(ForecastWindow)
            line == LineAt(ForecastWindow, (m - 1) + call.days_ahead)
            last == ForecastValues[Len(ForecastValues)]
        IN  /\ result # NoPrediction
            /\ result.current_value = last * 100
            /\ result.predicted_value = Round(line.n, line.d, 2)
            /\ result.change = Round(line.n - last * line.d, line.d, 2)

\* 31 values whose oldest, 5, lies outside the fitted window: the line is
\* flat at 0 and the prediction 30 days ahead is 0
C25_Witness ==
    /\ call.op = "predict_metric"
    /\ call.days_ahead = 30
    /\ Len(ForecastValues) = 31
    /\ ForecastValues[1] = 5
    /\ \A i \in 2..31 : ForecastValues[i] = 0
    /\ result.predicted_value = 0
    /\ result.current_value = 0

\* the records of the call's window that hold a number for the call's metric
InWindow ==
    {i \in 1..Len(store) :
        /\ store[i].date >= MaxDate(store) - call.days * TicksPerDay
        /\ IsNum(store[i][call.metric])}

\* the oldest and the newest of them
FirstInWindow == CHOOSE i \in InWindow : \A j \in InWindow : store[i].date <= store[j].date
LastInWindow == CHOOSE i \in InWindow : \A j \in InWindow : store[i].date >= store[j].date

(* C26: _calculate_trend(series, metric, d) uses exactly the measurements   *)
(* whose timestamp is >= (latest timestamp in the series - d days):         *)
(* data_points equals the number of non-null values of the metric among    *)
(* them, the latest measurement is always inside the window, and change =  *)
(* (last non-null in-window value) - (first non-null in-window value).     *)
C26_WindowFromLatest ==
    (call.op = "calculate_trend" /\ Cardinality(InWindow) >= 2) =>
        /\ result.data_points = Cardinality(InWindow)
        /\ result.change =
              (store[LastInWindow][call.metric].v - store[FirstInWindow][call.metric].v) * 100
        /\ \A i \in 1..Len(store) :
              (store[i].date = MaxDate(store) /\ IsNum(store[i][call.metric])) => i = LastInWindow

\* the oldest record counted lies exactly d days before the latest one, and
\* an older record with a weight lies outside the window
C26_Witness ==
    /\ call.op = "calculate_trend"
    /\ Cardinality(InWindow) >= 2
    /\ store[FirstInWindow].date = MaxDate(store) - call.days * TicksPerDay
    /\ \E i \in 1..Len(store) : i \notin InWindow /\ IsNum(store[i][call.metric])
    /\ result.data_points = Cardinality(InWindow)

(***************************************************************************)
(* Specification SpecPeriod: periods of 2..MaxPeriodRecords weight records *)
(* measured a day or a week apart, and one generate_progress_report        *)
(* request whose range holds all of them.                                  *)
(***************************************************************************)
MaxPeriodRecords == 3
PeriodGaps == {TicksPerDay, 7 * TicksPerDay}
PeriodCells == {Num(80), Num(81), NaN}

PeriodStores(max_records) ==
    UNION {
        { [i \in 1..n |-> [date |-> DatesFrom(g, 0)[i], weight_kg |-> w[i]]] :
            g \in [1..(n - 1) -> PeriodGaps], w \in [1..n -> PeriodCells] } :
        n \in 2..max_records }

\* the first day of the period and the day after its last record
PeriodRange(max_records) == <<0, 7 * max_records>>

InitPeriod ==
    /\ store \in PeriodStores(MaxPeriodRecords)
    /\ deps = Bound
    /\ call = NoCall
    /\ result = [none |-> TRUE]

NextPeriod ==
    \E include_photos \in BOOLEAN :
        GenerateProgressReport(PeriodRange(MaxPeriodRecords)[1],
                               PeriodRange(MaxPeriodRecords)[2], include_photos)

SpecPeriod == InitPeriod /\ [][NextPeriod]_vars

\* how many records of the requested period hold a number for the metric
PeriodCount(metric) ==
    Cardinality({i \in 1..Len(store) :
                    /\ Midnight(call.start_date) <= store[i].date
                    /\ store[i].date <= Midnight(call.end_date)
                    /\ IsNum(store[i][metric])})

(* C27: in generate_progress_report the trend of each key metric covers    *)
(* the entire requested period: it is computed from all non-null values of *)
(* that metric among the period's records, whatever the spacing between    *)
(* measurements, so its data_points equals the number of non-null values   *)
(* of the metric in the period.                                            *)
C27_PeriodTrendCoversPeriod ==
    (call.op = "generate_progress_report" /\ "error" \notin DOMAIN result) =>
        \A m \in DOMAIN result.trends :
            PeriodCount(m) >= 2 =>
                /\ "data_points" \in DOMAIN result.trends[m]
                /\ result.trends[m].data_points = PeriodCount(m)

(***************************************************************************)
(* Specification SpecWindows: stores of 1..MaxWindowRecords weight records *)
(* spaced so that neighbours fall inside the week, the month, the quarter, *)
(* the year or none of them, and one get_metrics_summary request.          *)
(***************************************************************************)
MaxWindowRecords == 3
WindowGaps == {TicksPerDay, 10 * TicksPerDay, 50 * TicksPerDay, 200 * TicksPerDay,
               400 * TicksPerDay}
WindowCellValues == {Num(0), Num(1), NaN}

WindowStores(max_records) ==
    UNION {
        { [i \in 1..n |-> [date |-> DatesFrom(g, 0)[i], weight_kg |-> w[i]]] :
            g \in [1..(n - 1) -> WindowGaps], w \in [1..n -> WindowCellValues] } :
        n \in 1..max_records }

InitWindows ==
    /\ store \in WindowStores(MaxWindowRecords)
    /\ deps = Bound
    /\ call = NoCall
    /\ result = [none |-> TRUE]

NextWindows == GetMetricsSummary

SpecWindows == InitWindows /\ [][NextWindows]_vars

\* the windows of the summary, shortest first
SummaryWindows == <<"week", "month", "quarter", "year">>

(* C28: in get_metrics_summary the four trend windows of a metric are      *)
(* nested: data_points(week) <= data_points(month) <= data_points(quarter) *)
(* <= data_points(year), and when a longer window reports                  *)
(* insufficient_data every shorter window of the same metric reports       *)
(* insufficient_data too.                                                  *)
C28_WindowsNested ==
    (call.op = "get_metrics_summary" /\ "error" \notin DOMAIN result) =>
        \A m \in DOMAIN result.trends :
            \A i, j \in 1..Len(SummaryWindows) :
                i < j =>
                    LET shorter == result.trends[m][SummaryWindows[i]]
                        longer == result.trends[m][SummaryWindows[j]]
                    IN  /\ longer = [trend |-> "insufficient_data"] =>
                              shorter = [trend |-> "insufficient_data"]
                        /\ ("data_points" \in DOMAIN shorter) =>
                              /\ "data_points" \in DOMAIN longer
                              /\ shorter.data_points <= longer.data_points

\* three weights 10 and 50 days apart: none but the latest in the week, two
\* in the month, three in the quarter and the year
C28_Witness ==
    /\ call.op = "get_metrics_summary"
    /\ "error" \notin DOMAIN result
    /\ result.trends.weight_kg.week = [trend |-> "insufficient_data"]
    /\ \A w \in {"month", "quarter", "year"} : "data_points" \in DOMAIN result.trends.weight_kg[w]
    /\ result.trends.weight_kg.month.data_points = 2
    /\ result.trends.weight_kg.quarter.data_points = 3
    /\ result.trends.weight_kg.year.data_points = 3

(***************************************************************************)
(* Specification SpecUpload: the processed-data file of the DataProcessor  *)
(* under any sequence of spreadsheet uploads and get_latest_measurement    *)
(* requests.  The file is absent at first, which get_body_composition_data *)
(* reads as no records.  A sheet holds up to MaxUploadRows rows, in any    *)
(* order, with a timestamp and a weight each; equal timestamps may occur.  *)
(***************************************************************************)
MaxUploadRows == 3
UploadDates == {0, 1, TicksPerDay}
UploadCells == {Num(80), Num(81)}
\* one weight per timestamp, but for two rows that share the middle timestamp
UploadRows == {r \in [date : UploadDates, weight_kg : UploadCells] :
                  r.weight_kg = Num(80) \/ r.date = 1}

UploadSheets(max_rows) == UNION {[1..n -> UploadRows] : n \in 0..max_rows}

\* how often a record occurs in a sequence
Occurrences(r, seq) == Cardinality({i \in 1..Len(seq) : seq[i] = r})

\* the same records, each as often, in some order
IsPermutation(s, t) ==
    /\ Len(s) = Len(t)
    /\ \A i \in 1..Len(t) : Occurrences(t[i], s) = Occurrences(t[i], t)

\* the sheet written oldest first
process_excel_file_ascending(rows) ==
    {s \in [1..Len(rows) -> Range(rows)] :
        /\ IsPermutation(s, rows)
        /\ \A i, j \in 1..Len(s) : i < j => s[i].date <= s[j].date}

\* DataProcessor.process_excel_file: the rows sorted by date, newest first,
\* in any of the orders the sort may give to rows of equal date; a row with
\* no metric but its weight gets no derived metric
process_excel_file(rows) ==
    {s \in [1..Len(rows) -> Range(rows)] :
        /\ IsPermutation(s, rows)
        /\ \A i, j \in 1..Len(s) : i < j => s[i].date >= s[j].date}

InitUpload ==
    /\ store = <<>>
    /\ deps = Bound
    /\ call = NoCall
    /\ result = [none |-> TRUE]

\* /api/upload-excel with a readable sheet: _save_processed_data overwrites the file
ProcessExcelFile(rows) ==
    /\ store' \in process_excel_file(rows)
    /\ call' = [op |-> "process_excel_file", ok |-> TRUE, rows |-> rows]
    /\ result' = store'
    /\ UNCHANGED deps

\* a sheet that pd.read_excel or the date conversion rejects: the method
\* raises before the file is opened for writing
ProcessExcelFileFails ==
    /\ call' = [op |-> "process_excel_file", ok |-> FALSE, rows |-> <<>>]
    /\ result' = Raised
    /\ UNCHANGED <<store, deps>>

GetLatestMeasurement ==
    /\ call' = [op |-> "get_latest_measurement"]
    /\ result' = get_latest_measurement(store)
    /\ UNCHANGED <<store, deps>>

NextUpload ==
    \/ \E rows \in UploadSheets(MaxUploadRows) : ProcessExcelFile(rows)
    \/ ProcessExcelFileFails
    \/ GetLatestMeasurement

SpecUpload == InitUpload /\ [][NextUpload]_vars

(* C29: after any sequence of successful process_excel_file uploads, the   *)
(* store holds exactly the records of the most recent upload (earlier      *)
(* uploads are replaced, not merged) ordered newest first, so              *)
(* get_latest_measurement returns the stored record with the greatest      *)
(* timestamp, and returns absent only when the store is empty or was never *)
(* written.                                                                *)
C29_StoreIsLastUpload ==
    /\ [](\A i, j \in 1..Len(store) : i < j => store[i].date >= store[j].date)
    /\ [][(call'.op = "process_excel_file" /\ call'.ok) =>
              IsPermutation(store', call'.rows)]_vars
    /\ [][~(call'.op = "process_excel_file" /\ call'.ok) => store' = store]_vars
    /\ [](call.op = "get_latest_measurement" =>
             IF store = <<>> THEN result = <<>>
             ELSE /\ Len(result) = 1
                  /\ \E i \in 1..Len(store) : result[1] = store[i]
                  /\ result[1].date = MaxDate(store))

\* the latest of three stored records of three different timestamps
C29_Witness ==
    /\ call.op = "get_latest_measurement"
    /\ Len(store) = 3
    /\ {store[i].date : i \in 1..3} = UploadDates
    /\ result = <<store[1]>>
    /\ result[1].date = TicksPerDay

\* the records that hold a number for the call's metric
Measured == {i \in 1..Len(store) : IsNum(store[i][call.metric])}

\* the value of the oldest and of the newest of them
FirstMeasured ==
    store[CHOOSE i \in Measured : \A j \in Measured : store[i].date <= store[j].date][call.metric].v
LastMeasured ==
    store[CHOOSE i \in Measured : \A j \in Measured : store[i].date >= store[j].date][call.metric].v

(* C30: every result of _analyze_metric_trend for a metric with at least 2 *)
(* non-null values satisfies min <= start <= max, min <= current <= max    *)
(* and min <= mean <= max, with start the first and current the last       *)
(* non-null value in timestamp order, and (before rounding)                *)
(* largest_daily_change <= max - min and |total_change| <= max - min.      *)
C30_AnalysisWithinRange ==
    (call.op = "analyze_metric_trend" /\ Cardinality(Measured) >= 2) =>
        /\ result.start = FirstMeasured * 100
        /\ result.current = LastMeasured * 100
        /\ \A i \in Measured : result.min <= store[i][call.metric].v * 100
                               /\ store[i][call.metric].v * 100 <= result.max
        /\ result.min <= result.start /\ result.start <= result.max
        /\ result.min <= result.current /\ result.current <= result.max
        /\ result.min <= result.mean /\ result.mean <= result.max
        /\ result.largest_daily_change <= result.max - result.min
        /\ Abs(result.total_change) <= result.max - result.min
        /\ result.total_change = result.current - result.start

\* a null first, then 3, 0, 1: start 3 is the maximum, the largest step is
\* the whole range and the total change is smaller
C30_Witness ==
    /\ call.op = "analyze_metric_trend"
    /\ Len(store) = 4
    /\ store[4].weight_kg = NaN
    /\ "start" \in DOMAIN result
    /\ result.start = 300 /\ result.max = 300 /\ result.min = 0 /\ result.current = 100
    /\ result.largest_daily_change = 300
    /\ result.total_change = -200

====
